---- MODULE Spec2Model ----
(***************************************************************************)
(* A model of rivus' localized response subsystem: the template parser of  *)
(* rivus-axum-macro, the once-initialized message catalogs, the locale     *)
(* negotiators of i18n/middleware.rs and i18n_middleware.rs, the task-local *)
(* ambient locale, the renderer t, the WebServer builder, the response     *)
(* envelope R with the error mappers of resp/r.rs and r.rs of rivus-axum,  *)
(* and the log cleanup thread of rivus-logger.                             *)
(*                                                                         *)
(* Text is a sequence of one-character strings, so that splitting,         *)
(* trimming, searching and concatenation are computed as the code computes *)
(* them.  Option<T> is a sequence of length 0 (None) or 1 (Some).          *)
(***************************************************************************)
EXTENDS Integers, Sequences, FiniteSets, TLC

VARIABLES
    I18N_STORAGE,   \* i18n/i18n.rs: the OnceLock of the compiled catalog
    I18N_STORE,     \* i18n.rs: the OnceLock of the directory catalog
    caller,         \* the callers of internal_init_i18n and init: operation, position, locals
    firstAttempt,   \* per store, the data of the first call that reached OnceLock::set
    req,            \* the requests in handle_i18n: position, tag, TaskLocalFuture slot, reads
    tls,            \* per thread-local cell, the value of CURRENT_LANG
    router,         \* WebServer.router: each merged route with the layers around it
    middlewares,    \* WebServer.middlewares: the layers stored for start
    started,        \* whether start has applied the middlewares and serves
    calls,          \* the builder calls made on the WebServer, in order
    served,         \* the last request served: its route and what its handler read
    tCall,          \* the last call of t: its inputs and its result
    negEntries,     \* the entries a client put in its Accept-Language header
    negHeader,      \* the accept-language header value of the request, if any
    negResult,      \* what resolve_language returned for it
    negLangs,       \* its local langs: the (q_value, lang) pairs before the sort
    negDirResult,   \* what resolve_language of i18n_middleware.rs returned for it
    tplInput,       \* the raw template of a catalog entry, as its TOML file gives it
    tplParts,       \* what parse_template made of it
    tplResult,      \* the last rendering of those parts: its arguments and its text
    mapCall,        \* the last call of R::err or R::ok: the error and the locale scope
    envelope,       \* the R it built: code, message, data
    logged,         \* what that call wrote to the log
    httpStatus,     \* the status into_response gave the envelope
    log_dir,        \* the names of the files in the log directory, if it exists
    cleaner         \* the LoggerConfig and the cleanup thread it spawns: position, locals

renderVars == <<tCall>>
negVars == <<negEntries, negHeader, negResult, negLangs, negDirResult>>
catVars == <<I18N_STORE, caller, firstAttempt>>
locVars == <<req, tls>>
srvVars == <<router, middlewares, started, calls, served>>
tplVars == <<tplInput, tplParts, tplResult>>
mapVars == <<mapCall, envelope, logged, httpStatus>>
logVars == <<log_dir, cleaner>>

\* What the steps of one part of the program leave alone
renderOthers == <<catVars, locVars, negVars, srvVars, tplVars, mapVars, logVars>>
negOthers == <<catVars, locVars, renderVars, srvVars, tplVars, mapVars, logVars>>
catOthers == <<locVars, negVars, renderVars, srvVars, tplVars, mapVars, logVars>>
locOthers == <<I18N_STORAGE, catVars, negVars, renderVars, srvVars, tplVars, mapVars, logVars>>
srvOthers == <<I18N_STORAGE, catVars, locVars, negVars, renderVars, tplVars, mapVars, logVars>>
tplOthers == <<I18N_STORAGE, catVars, locVars, negVars, renderVars, srvVars, mapVars, logVars>>
mapOthers == <<I18N_STORAGE, catVars, locVars, negVars, renderVars, srvVars, tplVars, logVars>>
logOthers == <<I18N_STORAGE, catVars, locVars, negVars, renderVars, srvVars, tplVars, mapVars>>

vars == <<I18N_STORAGE, I18N_STORE, caller, firstAttempt, req, tls,
          router, middlewares, started, calls, served,
          tCall, negEntries, negHeader, negResult, negLangs, negDirResult,
          tplInput, tplParts, tplResult, mapCall, envelope, logged, httpStatus,
          log_dir, cleaner>>

None == <<>>
Some(v) == <<v>>
IsSome(o) == Len(o) = 1
Unwrap(o) == o[1]

----------------------------------------------------------------------------
(* Text constants *)

s_en == <<"e", "n">>
s_zh == <<"z", "h">>
s_fr == <<"f", "r">>
s_zhCN == <<"z", "h", "-", "C", "N">>
s_200 == <<"2", "0", "0">>
s_404 == <<"4", "0", "4">>
s_hello == <<"h", "e", "l", "l", "o">>
s_name == <<"n", "a", "m", "e">>
s_who == <<"w", "h", "o">>
s_Jason == <<"J", "a", "s", "o", "n">>
s_Bob == <<"B", "o", "b">>

\* Concatenation of a sequence of texts
RECURSIVE Concat(_)
Concat(ss) == IF ss = <<>> THEN <<>> ELSE Head(ss) \o Concat(Tail(ss))

\* str::find(c): the 1-based index of the first c in s, 0 when there is none
RECURSIVE FindFrom(_, _, _)
FindFrom(s, c, i) ==
    IF i > Len(s) THEN 0
    ELSE IF s[i] = c THEN i
    ELSE FindFrom(s, c, i + 1)

Find(s, c) == FindFrom(s, c, 1)

----------------------------------------------------------------------------
(* rivus-axum-macro: the template parser and the compiled catalog *)

Static(text) == [kind |-> "Static", text |-> text]
Placeholder(name) == [kind |-> "Placeholder", text |-> name]

\* A parser that makes no segment of a placeholder whose name is empty
RECURSIVE parse_template_SkipEmptyName(_)
parse_template_SkipEmptyName(input) ==
    LET start == Find(input, "{") IN
    IF start = 0
    THEN IF input # <<>> THEN <<Static(input)>> ELSE <<>>
    ELSE LET pre == IF start > 1
                    THEN <<Static(SubSeq(input, 1, start - 1))>>
                    ELSE <<>>
             rest == SubSeq(input, start + 1, Len(input))
             end == Find(rest, "}")
         IN  IF end = 0
             THEN pre \o parse_template_SkipEmptyName(rest)
             ELSE pre \o (IF end > 1 THEN <<Placeholder(SubSeq(rest, 1, end - 1))>>
                          ELSE <<>>)
                      \o parse_template_SkipEmptyName(SubSeq(rest, end + 1, Len(rest)))

\* A parser that keeps an unterminated '{' and what follows it as a literal
RECURSIVE parse_template_KeepOrphan(_)
parse_template_KeepOrphan(input) ==
    LET start == Find(input, "{") IN
    IF start = 0
    THEN IF input # <<>> THEN <<Static(input)>> ELSE <<>>
    ELSE LET pre == IF start > 1
                    THEN <<Static(SubSeq(input, 1, start - 1))>>
                    ELSE <<>>
             rest == SubSeq(input, start + 1, Len(input))
             end == Find(rest, "}")
         IN  IF end = 0
             THEN pre \o <<Static(SubSeq(input, start, Len(input)))>>
             ELSE pre \o <<Placeholder(SubSeq(rest, 1, end - 1))>>
                      \o parse_template_KeepOrphan(SubSeq(rest, end + 1, Len(rest)))

\* A parser that emits the literal before every '{', empty or not
RECURSIVE parse_template_EmptyLiterals(_)
parse_template_EmptyLiterals(input) ==
    LET start == Find(input, "{") IN
    IF start = 0
    THEN IF input # <<>> THEN <<Static(input)>> ELSE <<>>
    ELSE LET pre == <<Static(SubSeq(input, 1, start - 1))>>
             rest == SubSeq(input, start + 1, Len(input))
             end == Find(rest, "}")
         IN  IF end = 0
             THEN pre \o parse_template_EmptyLiterals(rest)
             ELSE pre \o <<Placeholder(SubSeq(rest, 1, end - 1))>>
                      \o parse_template_EmptyLiterals(SubSeq(rest, end + 1, Len(rest)))

RECURSIVE parse_template(_)
parse_template(input) ==
    LET start == Find(input, "{") IN
    IF start = 0
    THEN IF input # <<>> THEN <<Static(input)>> ELSE <<>>
    ELSE LET pre == IF start > 1
                    THEN <<Static(SubSeq(input, 1, start - 1))>>
                    ELSE <<>>
             rest == SubSeq(input, start + 1, Len(input))
             end == Find(rest, "}")
         IN  IF end = 0
             THEN pre \o parse_template(rest)
             ELSE pre \o <<Placeholder(SubSeq(rest, 1, end - 1))>>
                      \o parse_template(SubSeq(rest, end + 1, Len(rest)))

\* The body of auto_init_i18n that i18n_assets! generates for a directory of
\* parsed TOML files (language -> key -> raw template): the master_map.
I18nAssets(files) ==
    [lang \in DOMAIN files |->
        [key \in DOMAIN files[lang] |-> parse_template(files[lang][key])]]

\* Two asset directories with different data for the same keys
AssetsA ==
    (s_en :> (s_200 :> <<"H", "i", " ", "{", "n", "a", "m", "e", "}", "!">>
              @@ s_hello :> <<"{", "w", "h", "o", "}", "{", "n", "a", "m", "e", "}">>)
     @@ s_zh :> (s_200 :> <<"N", "i", " ", "{", "n", "a", "m", "e", "}">>))

AssetsB ==
    (s_en :> (s_200 :> <<"Y", "o">>)
     @@ s_zhCN :> (s_200 :> <<"O", "k">>))

CompiledData == {I18nAssets(AssetsA), I18nAssets(AssetsB)}

----------------------------------------------------------------------------
(* i18n/i18n.rs: the compiled catalog store and the renderer *)

\* OnceLock::get: the value once initialization has completed
\* A get that reads the slot without looking at the state of the Once
OnceGet_ReadSlot(cell) == cell.value

OnceGet(cell) == IF cell.state = "Complete" THEN cell.value ELSE None

OnceNew == [state |-> "Incomplete", value |-> None]
OnceOf(v) == [state |-> "Complete", value |-> Some(v)]

MissingLang(lang) ==
    <<"[", "M", "i", "s", "s", "i", "n", "g", " ", "L", "a", "n", "g", ":", " ">>
        \o lang \o <<"]">>

MissingKey(key) ==
    <<"[", "M", "i", "s", "s", "i", "n", "g", " ", "K", "e", "y", ":", " ">>
        \o key \o <<"]">>

\* A renderer that lets a later argument of the same name override an earlier one
RECURSIVE FindArg_LastMatch(_, _)
FindArg_LastMatch(args, p_name) ==
    IF args = <<>> THEN <<>>
    ELSE IF args[Len(args)][1] = p_name THEN args[Len(args)][2]
    ELSE FindArg_LastMatch(SubSeq(args, 1, Len(args) - 1), p_name)

\* args.iter().find(|(k, _)| k == p_name).map(|(_, v)| *v).unwrap_or("")
RECURSIVE FindArg(_, _)
FindArg(args, p_name) ==
    IF args = <<>> THEN <<>>
    ELSE IF Head(args)[1] = p_name THEN Head(args)[2]
    ELSE FindArg(Tail(args), p_name)

RECURSIVE RenderParts(_, _)
RenderParts(parts, args) ==
    IF parts = <<>> THEN <<>>
    ELSE LET part == Head(parts)
             piece == IF part.kind = "Static" THEN part.text
                      ELSE FindArg(args, part.text)
         IN  piece \o RenderParts(Tail(parts), args)

\* A renderer that looks the key up before the language is known to be present
\* and reports every miss as a missing key
t_KeyFirst(lang, key, args) ==
    LET storage == OnceGet(I18N_STORAGE) IN
    IF ~IsSome(storage) \/ lang \notin DOMAIN Unwrap(storage)
       \/ key \notin DOMAIN Unwrap(storage)[lang]
    THEN MissingKey(key)
    ELSE RenderParts(Unwrap(storage)[lang][key], args)

t(lang, key, args) ==
    LET storage == OnceGet(I18N_STORAGE) IN
    IF ~IsSome(storage) \/ lang \notin DOMAIN Unwrap(storage)
    THEN MissingLang(lang)
    ELSE LET lang_map == Unwrap(storage)[lang] IN
         IF key \notin DOMAIN lang_map
         THEN MissingKey(key)
         ELSE RenderParts(lang_map[key], args)

----------------------------------------------------------------------------
(* The renderer called on every catalog state, language, key and argument list *)

TLangs == {s_en, s_zh, s_fr}
TKeys == {s_200, s_hello, s_404}
TArgs ==
    { <<>>,
      << <<s_name, s_Jason>> >>,
      << <<s_name, s_Jason>>, <<s_name, s_Bob>> >>,
      << <<s_who, s_Bob>>, <<s_name, <<>> >>, <<s_name, s_Jason>> >>,
      << <<s_who, <<"{", "n", "a", "m", "e", "}">> >>, <<s_name, s_Bob>> >> }

NumCallers == 3
NumRequests == 3
NumWorkers == 2

Requests == 1..NumRequests
Workers == 1..NumWorkers

\* WebServer::new: an empty router and no middlewares
SrvNew ==
    /\ router = <<>>
    /\ middlewares = <<>>
    /\ started = FALSE
    /\ calls = <<>>
    /\ served = None

NotArrived ==
    [pc |-> "new", lang |-> None, slot |-> None, worker |-> 0, reads |-> {}, exit |-> "none"]

\* No request has arrived and no thread has CURRENT_LANG set
LocIdle ==
    /\ req = [r \in Requests |-> NotArrived]
    /\ tls = [w \in Workers |-> None]

Callers == 1..NumCallers

NotCalled == [op |-> "none", arg |-> None, pc |-> "idle", store |-> None, res |-> "none"]

\* No build call is in progress and the directory store is untouched
CatIdle ==
    /\ I18N_STORE = OnceNew
    /\ caller = [p \in Callers |-> NotCalled]
    /\ firstAttempt = [compiled |-> None, dir |-> None]

NegIdle ==
    /\ negEntries = None
    /\ negHeader = None
    /\ negResult = None
    /\ negLangs = <<>>
    /\ negDirResult = None

\* No template is being compiled
TplIdle ==
    /\ tplInput = None
    /\ tplParts = None
    /\ tplResult = None

\* No response has been built
MapIdle ==
    /\ mapCall = None
    /\ envelope = None
    /\ logged = <<>>
    /\ httpStatus = None

\* No LoggerConfig has been built
NoLogger ==
    [pc |-> "none", cfg |-> None, max_files |-> 0, log_files |-> <<>>, next |-> 0,
     passes |-> 0, wakes |-> 0, before |-> None, created |-> {}, after |-> None]

LogIdle ==
    /\ log_dir = None
    /\ cleaner = NoLogger

RenderInit ==
    /\ I18N_STORAGE \in {OnceNew} \cup {OnceOf(d) : d \in CompiledData}
    /\ tCall = None
    /\ NegIdle
    /\ CatIdle
    /\ LocIdle
    /\ SrvNew
    /\ LogIdle
    /\ TplIdle
    /\ MapIdle

CallT ==
    \E lang \in TLangs, key \in TKeys, args \in TArgs :
        /\ tCall' = Some([lang |-> lang, key |-> key, args |-> args,
                          result |-> t(lang, key, args)])
        /\ UNCHANGED <<I18N_STORAGE, renderOthers>>

RenderNext == CallT

SpecRender == RenderInit /\ [][RenderNext]_vars

\* The languages of the installed compiled catalog (none before initialization)
InstalledLangs ==
    IF IsSome(OnceGet(I18N_STORAGE)) THEN DOMAIN Unwrap(OnceGet(I18N_STORAGE)) ELSE {}

IsText(s) == s \in Seq(STRING)

(* C9: render returns exactly "[Missing Lang: <lang>]" when the language is  *)
(* not in the catalog, whatever the key, and exactly "[Missing Key: <key>]"  *)
(* when the language is present and the key is not; in every case, also with *)
(* a missing argument, it returns a text.                                     *)
C9_Sentinels ==
    IsSome(tCall) =>
        LET c == Unwrap(tCall) IN
        /\ IsText(c.result)
        /\ c.lang \notin InstalledLangs =>
               c.result = <<"[", "M", "i", "s", "s", "i", "n", "g", " ",
                            "L", "a", "n", "g", ":", " ">> \o c.lang \o <<"]">>
        /\ (c.lang \in InstalledLangs
             /\ c.key \notin DOMAIN Unwrap(OnceGet(I18N_STORAGE))[c.lang]) =>
               c.result = <<"[", "M", "i", "s", "s", "i", "n", "g", " ",
                            "K", "e", "y", ":", " ">> \o c.key \o <<"]">>

\* t("en", "404", ..) on a catalog that has "en" but no "404"
C9_Witness ==
    /\ IsSome(tCall)
    /\ Unwrap(tCall).lang = s_en
    /\ s_en \in InstalledLangs
    /\ Unwrap(tCall).key = s_404
    /\ Unwrap(tCall).result =
           <<"[", "M", "i", "s", "s", "i", "n", "g", " ", "K", "e", "y", ":", " ",
             "4", "0", "4", "]">>

\* The value the claim gives a segment: a literal as is, a placeholder the value
\* of the argument of least index that has its name, the empty text without one
SegmentValue(part, args) ==
    IF part.kind = "Static" THEN part.text
    ELSE LET hits == {j \in 1..Len(args) : args[j][1] = part.text} IN
         IF hits = {} THEN <<>>
         ELSE args[CHOOSE j \in hits : \A k \in hits : j <= k][2]

(* C10: for a present language and key, render returns the concatenation of *)
(* the template's segments in order, each literal verbatim and each          *)
(* placeholder replaced by the value of the first argument of that name, or  *)
(* by the empty text when no argument has that name.                          *)
C10_RenderConcat ==
    IsSome(tCall) =>
        LET c == Unwrap(tCall) IN
        (c.lang \in InstalledLangs
         /\ c.key \in DOMAIN Unwrap(OnceGet(I18N_STORAGE))[c.lang]) =>
            LET parts == Unwrap(OnceGet(I18N_STORAGE))[c.lang][c.key] IN
            c.result = Concat([i \in 1..Len(parts) |-> SegmentValue(parts[i], c.args)])

\* "Hi {name}!" rendered with name=Jason, name=Bob gives "Hi Jason!"
C10_Witness ==
    /\ IsSome(tCall)
    /\ OnceGet(I18N_STORAGE) = Some(I18nAssets(AssetsA))
    /\ Unwrap(tCall).lang = s_en
    /\ Unwrap(tCall).key = s_200
    /\ Unwrap(tCall).args = << <<s_name, s_Jason>>, <<s_name, s_Bob>> >>
    /\ Unwrap(tCall).result = <<"H", "i", " ", "J", "a", "s", "o", "n", "!">>

----------------------------------------------------------------------------
(* i18n/middleware.rs: locale negotiation *)

\* str::split(sep): the pieces between the separators, at least one piece
RECURSIVE Split(_, _)
Split(s, sep) ==
    LET i == Find(s, sep) IN
    IF i = 0 THEN <<s>>
    ELSE <<SubSeq(s, 1, i - 1)>> \o Split(SubSeq(s, i + 1, Len(s)), sep)

IsWhitespace(c) == c \in {" ", "\t"}

RECURSIVE TrimStart(_)
TrimStart(s) ==
    IF s # <<>> /\ IsWhitespace(Head(s)) THEN TrimStart(Tail(s)) ELSE s

RECURSIVE TrimEnd(_)
TrimEnd(s) ==
    IF s # <<>> /\ IsWhitespace(s[Len(s)])
    THEN TrimEnd(SubSeq(s, 1, Len(s) - 1))
    ELSE s

\* str::trim
Trim(s) == TrimEnd(TrimStart(s))

\* str::strip_prefix
StripPrefix(s, prefix) ==
    IF Len(s) >= Len(prefix) /\ SubSeq(s, 1, Len(prefix)) = prefix
    THEN Some(SubSeq(s, Len(prefix) + 1, Len(s)))
    ELSE None

DigitValue ==
    ("0" :> 0 @@ "1" :> 1 @@ "2" :> 2 @@ "3" :> 3 @@ "4" :> 4
     @@ "5" :> 5 @@ "6" :> 6 @@ "7" :> 7 @@ "8" :> 8 @@ "9" :> 9)

IsDigits(s) == \A i \in 1..Len(s) : s[i] \in DOMAIN DigitValue

RECURSIVE DigitsValue(_)
DigitsValue(s) ==
    IF s = <<>> THEN 0
    ELSE 10 * DigitsValue(SubSeq(s, 1, Len(s) - 1)) + DigitValue[s[Len(s)]]

RECURSIVE Pow10(_)
Pow10(n) == IF n = 0 THEN 1 ELSE 10 * Pow10(n - 1)

\* str::parse::<f32> on decimal numerals, [+-]digits[.digits] with a digit on
\* one side of the point, as the fraction <<numerator, denominator>>; None for a
\* text that is no number.  Exponents and the spellings of infinity and NaN,
\* which f32 also parses, and rounding to 24 bits, are outside this operator.
ParseF32(v) ==
    LET signed == v # <<>> /\ Head(v) \in {"+", "-"}
        sign == IF signed /\ Head(v) = "-" THEN -1 ELSE 1
        body == IF signed THEN Tail(v) ELSE v
        dot == Find(body, ".")
        int == IF dot = 0 THEN body ELSE SubSeq(body, 1, dot - 1)
        frac == IF dot = 0 THEN <<>> ELSE SubSeq(body, dot + 1, Len(body))
    IN  IF IsDigits(int) /\ IsDigits(frac) /\ Len(int) + Len(frac) >= 1
        THEN Some(<<sign * (DigitsValue(int) * Pow10(Len(frac)) + DigitsValue(frac)),
                    Pow10(Len(frac))>>)
        ELSE None

QOne == <<1, 1>>

\* a < b for fractions of positive denominator
QLess(a, b) == a[1] * b[2] < b[1] * a[2]

\* A closure that gives an entry whose q value does not parse the weight 0
ParsePart_DefaultZero(part) ==
    LET sections == Split(part, ";")
        lang == Trim(sections[1])
        q == IF Len(sections) >= 2
             THEN StripPrefix(Trim(sections[2]), <<"q", "=">>)
             ELSE None
        parsed == IF IsSome(q) THEN ParseF32(Unwrap(q)) ELSE Some(QOne)
    IN  [q |-> IF IsSome(parsed) THEN Unwrap(parsed) ELSE <<0, 1>>, lang |-> lang]

\* The closure of filter_map (lines 30-39): one header part to (q_value, lang)
ParsePart(part) ==
    LET sections == Split(part, ";")
        lang == Trim(sections[1])
        q == IF Len(sections) >= 2
             THEN StripPrefix(Trim(sections[2]), <<"q", "=">>)
             ELSE None
        parsed == IF IsSome(q) THEN ParseF32(Unwrap(q)) ELSE None
    IN  [q |-> IF IsSome(parsed) THEN Unwrap(parsed) ELSE QOne, lang |-> lang]

\* A comparator that orders by ascending weight
InsertSorted_Ascending(sorted, x) ==
    LET before == {i \in 1..Len(sorted) : QLess(x.q, sorted[i].q)}
        at == IF before = {} THEN Len(sorted) + 1
              ELSE CHOOSE i \in before : \A j \in before : i <= j
    IN  SubSeq(sorted, 1, at - 1) \o <<x>> \o SubSeq(sorted, at, Len(sorted))

\* One insertion of the stable sort under b.0.partial_cmp(&a.0): x goes before
\* the first element of smaller weight, after every element of equal weight
InsertSorted(sorted, x) ==
    LET before == {i \in 1..Len(sorted) : QLess(sorted[i].q, x.q)}
        at == IF before = {} THEN Len(sorted) + 1
              ELSE CHOOSE i \in before : \A j \in before : i <= j
    IN  SubSeq(sorted, 1, at - 1) \o <<x>> \o SubSeq(sorted, at, Len(sorted))

\* langs.sort_by(|a, b| b.0.partial_cmp(&a.0).unwrap_or(Equal)): slice::sort_by
\* is stable
RECURSIVE SortByInto(_, _)
SortByInto(sorted, langs) ==
    IF langs = <<>> THEN sorted
    ELSE SortByInto(InsertSorted(sorted, Head(langs)), Tail(langs))

sort_by(langs) == SortByInto(<<>>, langs)

\* is_language_supported(lang): the language is one of the compiled catalog
is_language_supported(lang) ==
    /\ IsSome(OnceGet(I18N_STORAGE))
    /\ lang \in DOMAIN Unwrap(OnceGet(I18N_STORAGE))

default_lang == s_zh

RECURSIVE FirstSupported(_)
FirstSupported(langs) ==
    IF langs = <<>> THEN default_lang
    ELSE IF is_language_supported(Head(langs).lang) THEN Head(langs).lang
    ELSE FirstSupported(Tail(langs))

\* A negotiator that returns the top-ranked tag whether or not it is supported
resolve_language_FirstEntryWins(header) ==
    IF ~IsSome(header) THEN default_lang
    ELSE LET parts == Split(Unwrap(header), ",")
             langs == sort_by([i \in 1..Len(parts) |-> ParsePart(parts[i])])
         IN  langs[1].lang

\* The vector collected at lines 28-40, before it is sorted
collect_langs(header) ==
    IF ~IsSome(header) THEN <<>>
    ELSE LET parts == Split(Unwrap(header), ",")
         IN  [i \in 1..Len(parts) |-> ParsePart(parts[i])]

\* resolve_language(headers), given headers.get("accept-language")
resolve_language(header) ==
    IF ~IsSome(header) THEN default_lang
    ELSE LET parts == Split(Unwrap(header), ",")
             langs == sort_by([i \in 1..Len(parts) |-> ParsePart(parts[i])])
         IN  FirstSupported(langs)

----------------------------------------------------------------------------
(* The negotiator applied to headers built from client entries *)

MaxEntries == 3

Entry(raw, tag, q) == [raw |-> raw, tag |-> tag, q |-> q]

\* What a client writes, the tag it means and the weight it gives it
ClientEntries ==
    { Entry(s_en, s_en, <<1, 1>>),
      Entry(<<" ">> \o s_en \o <<";", "q", "=", "0", ".", "8">>, s_en, <<8, 10>>),
      Entry(s_fr \o <<";", "q", "=", "0", ".", "9">>, s_fr, <<9, 10>>),
      Entry(s_fr \o <<";", "q", "=", "1", ".", "0">>, s_fr, <<1, 1>>),
      Entry(s_zhCN \o <<";", " ", "q", "=", "0", ".", "9", "0">>, s_zhCN, <<9, 10>>),
      Entry(s_zh \o <<";", "q", "=", "a", "b", "c">>, s_zh, <<1, 1>>),
      Entry(s_zhCN \o <<";", "q", "=", ".", "5", " ">>, s_zhCN, <<1, 2>>),
      Entry(<<>>, <<>>, <<1, 1>>),
      Entry(<<" ", ";", "q", "=", "0", ".", "9">>, <<>>, <<9, 10>>) }

RECURSIVE JoinRaw(_)
JoinRaw(es) ==
    IF es = <<>> THEN <<>>
    ELSE IF Len(es) = 1 THEN es[1].raw
    ELSE es[1].raw \o <<",">> \o JoinRaw(Tail(es))

AssetsEn == (s_en :> (s_200 :> <<"O", "k">>))

NegCatalogs ==
    {OnceNew, OnceOf(I18nAssets(AssetsEn)), OnceOf(I18nAssets(AssetsA)),
     OnceOf(I18nAssets(AssetsB))}

NegInit ==
    /\ I18N_STORAGE \in NegCatalogs
    /\ negEntries \in {None} \cup
           {Some(es) : es \in UNION {[1..n -> ClientEntries] : n \in 0..MaxEntries}}
    /\ negHeader = IF IsSome(negEntries) THEN Some(JoinRaw(Unwrap(negEntries))) ELSE None
    /\ negResult = None
    /\ negLangs = <<>>
    /\ negDirResult = None
    /\ tCall = None
    /\ CatIdle
    /\ LocIdle
    /\ SrvNew
    /\ LogIdle
    /\ TplIdle
    /\ MapIdle

ResolveLanguage ==
    /\ negResult = None
    /\ negLangs' = collect_langs(negHeader)
    /\ negResult' = Some(resolve_language(negHeader))
    /\ UNCHANGED <<I18N_STORAGE, negEntries, negHeader, negDirResult, negOthers>>

NegNext == ResolveLanguage

SpecNegotiate == NegInit /\ [][NegNext]_vars

\* The entries of the header whose tag the catalog supports
SupportedEntries ==
    IF IsSome(negEntries)
    THEN {i \in 1..Len(Unwrap(negEntries)) : Unwrap(negEntries)[i].tag \in InstalledLangs}
    ELSE {}

C7_DefaultZhCN ==
    (/\ IsSome(negResult)
     /\ InstalledLangs = {s_en, s_zhCN}
     /\ negHeader \in {None, Some(<<"f", "r", ";", "q", "=", "1", ".", "0">>)}) =>
        Unwrap(negResult) = <<"z", "h", "-", "C", "N">>

(* C8: negotiation returns the supported tag of highest quality: of the     *)
(* header's entries with a supported tag, the one of greatest q, and of     *)
(* several with that q the one that comes first in the header.              *)
C8_HighestQuality ==
    (IsSome(negResult) /\ SupportedEntries # {}) =>
        LET es == Unwrap(negEntries)
            best == CHOOSE i \in SupportedEntries :
                       \A j \in SupportedEntries :
                           \/ QLess(es[j].q, es[i].q)
                           \/ (~QLess(es[i].q, es[j].q) /\ i <= j)
        IN  Unwrap(negResult) = es[best].tag

\* header "fr;q=0.9, en;q=0.8" with only "en" supported gives "en"
C8_Witness ==
    /\ negHeader = Some(<<"f", "r", ";", "q", "=", "0", ".", "9", ",",
                          " ", "e", "n", ";", "q", "=", "0", ".", "8">>)
    /\ InstalledLangs = {s_en}
    /\ negResult = Some(s_en)

\* The client's entries that carry a tag
RECURSIVE Tagged(_)
Tagged(es) ==
    IF es = <<>> THEN <<>>
    ELSE IF Head(es).tag = <<>> THEN Tagged(Tail(es))
    ELSE <<Head(es)>> \o Tagged(Tail(es))

(* C21: the quality of a header entry is the value of its q=<float>        *)
(* parameter, and 1.0 when the entry has no q parameter or its value does   *)
(* not parse; an entry whose tag is empty after trimming counts for         *)
(* nothing: it is never returned, and the result is the one of the header   *)
(* without such entries.                                                     *)
C21_QualityAndEmptyTag ==
    (IsSome(negResult) /\ IsSome(negEntries)) =>
        LET es == Unwrap(negEntries)
        IN  /\ \A i \in 1..Len(es) :
                    /\ i <= Len(negLangs)
                    /\ negLangs[i].q[1] * es[i].q[2] = es[i].q[1] * negLangs[i].q[2]
                    /\ negLangs[i].lang = es[i].tag
            /\ Unwrap(negResult) # <<>>
            /\ negResult = Some(resolve_language(Some(JoinRaw(Tagged(es)))))

\* header "zh;q=abc, ;q=0.9, en;q=0.8" with only "en" supported: the weights
\* are 1, 0.9 and 0.8, and the answer is "en"
C21_Witness ==
    /\ negHeader = Some(<<"z", "h", ";", "q", "=", "a", "b", "c", ",",
                          " ", ";", "q", "=", "0", ".", "9", ",",
                          " ", "e", "n", ";", "q", "=", "0", ".", "8">>)
    /\ InstalledLangs = {s_en}
    /\ Len(negLangs) = 3
    /\ negLangs[1] = [q |-> <<1, 1>>, lang |-> s_zh]
    /\ negLangs[2] = [q |-> <<9, 10>>, lang |-> <<>>]
    /\ negResult = Some(s_en)

----------------------------------------------------------------------------
(* i18n_middleware.rs: the negotiator over the directory catalog *)

UpperCase == <<"A", "B", "C", "D", "E", "F", "G", "H", "I", "J", "K", "L", "M",
               "N", "O", "P", "Q", "R", "S", "T", "U", "V", "W", "X", "Y", "Z">>
LowerCase == <<"a", "b", "c", "d", "e", "f", "g", "h", "i", "j", "k", "l", "m",
               "n", "o", "p", "q", "r", "s", "t", "u", "v", "w", "x", "y", "z">>

\* str::to_lowercase on ASCII text
to_lowercase(s) ==
    [i \in 1..Len(s) |->
        IF \E k \in 1..26 : UpperCase[k] = s[i]
        THEN LowerCase[CHOOSE k \in 1..26 : UpperCase[k] = s[i]]
        ELSE s[i]]

\* A loop body that only looks the full tag up
RECURSIVE FirstHit_ExactOnly(_, _)
FirstHit_ExactOnly(store, raws) ==
    IF raws = <<>> THEN s_zh
    ELSE LET tag == to_lowercase(Trim(Split(Head(raws), ";")[1]))
         IN  IF tag = <<>> THEN FirstHit_ExactOnly(store, Tail(raws))
             ELSE IF tag \in DOMAIN store THEN tag
             ELSE FirstHit_ExactOnly(store, Tail(raws))

\* The loop over header.split(',') (lines 32-46)
RECURSIVE FirstHit(_, _)
FirstHit(store, raws) ==
    IF raws = <<>> THEN s_zh
    ELSE LET tag == to_lowercase(Trim(Split(Head(raws), ";")[1]))
             primary == Split(tag, "-")[1]
         IN  IF tag = <<>> THEN FirstHit(store, Tail(raws))
             ELSE IF tag \in DOMAIN store THEN tag
             ELSE IF primary \in DOMAIN store THEN primary
             ELSE FirstHit(store, Tail(raws))

\* A negotiator that returns the first tag of the header, in the catalog or not
i18n_middleware_resolve_language_AnyTag(header) ==
    LET store == OnceGet(I18N_STORE) IN
    IF ~IsSome(store) THEN s_zh
    ELSE IF ~IsSome(header) THEN s_zh
    ELSE LET tag == to_lowercase(Trim(Split(Split(Unwrap(header), ",")[1], ";")[1]))
         IN  IF tag = <<>> THEN s_zh ELSE tag

\* resolve_language(req) of i18n_middleware.rs, given the accept-language
\* header of req as a text, if it has one
i18n_middleware_resolve_language(header) ==
    LET store == OnceGet(I18N_STORE) IN
    IF ~IsSome(store) THEN s_zh
    ELSE IF ~IsSome(header) THEN s_zh
    ELSE FirstHit(Unwrap(store), Split(Unwrap(header), ","))

\* What a client writes: the tag as written, lower-cased, and its primary subtag
LangRange(raw, tag, lower, primary) ==
    [raw |-> raw, tag |-> tag, lower |-> lower, primary |-> primary, q |-> <<1, 1>>]

s_de == <<"d", "e">>

DirClientEntries ==
    { LangRange(<<"E", "N", "-", "U", "S">>, <<"E", "N", "-", "U", "S">>,
                <<"e", "n", "-", "u", "s">>, s_en),
      LangRange(s_en \o <<";", "q", "=", "0", ".", "9">>, s_en, s_en, s_en),
      LangRange(<<" ">> \o s_zhCN \o <<" ", ";", "q", "=", "0", ".", "8">>, s_zhCN,
                <<"z", "h", "-", "c", "n">>, s_zh),
      LangRange(s_fr, s_fr, s_fr, s_fr),
      LangRange(<<" ">>, <<>>, <<>>, <<>>),
      LangRange(<<"d", "e", "-", "D", "E">>, <<"d", "e", "-", "D", "E">>,
                <<"d", "e", "-", "d", "e">>, s_de) }

\* Directory catalogs by the stems of their files
DirCatalogs ==
    { OnceNew,
      OnceOf(s_en :> (s_200 :> <<"O", "k">>) @@ s_zh :> (s_200 :> <<"H", "a", "o">>)),
      OnceOf(<<"e", "n", "-", "u", "s">> :> (s_200 :> <<"O", "k">>)
             @@ s_fr :> (s_200 :> <<"O", "u", "i">>)),
      OnceOf(s_zhCN :> (s_200 :> <<"H", "a", "o">>) @@ s_de :> (s_200 :> <<"J", "a">>)) }

DirNegInit ==
    /\ I18N_STORAGE \in {OnceNew, OnceOf(I18nAssets(AssetsB))}
    /\ I18N_STORE \in DirCatalogs
    /\ caller = [p \in Callers |-> NotCalled]
    /\ firstAttempt = [compiled |-> None, dir |-> None]
    /\ negEntries \in {None} \cup
           {Some(es) : es \in UNION {[1..n -> DirClientEntries] : n \in 0..MaxEntries}}
    /\ negHeader = IF IsSome(negEntries) THEN Some(JoinRaw(Unwrap(negEntries))) ELSE None
    /\ negResult = None
    /\ negLangs = <<>>
    /\ negDirResult = None
    /\ tCall = None
    /\ LocIdle
    /\ SrvNew
    /\ LogIdle
    /\ TplIdle
    /\ MapIdle

\* handle_i18n of i18n_middleware.rs resolves the language of the request
DirResolveLanguage ==
    /\ negDirResult = None
    /\ negDirResult' = Some(i18n_middleware_resolve_language(negHeader))
    /\ UNCHANGED <<I18N_STORAGE, negEntries, negHeader, negResult, negLangs, negOthers>>

DirNegNext ==
    \/ ResolveLanguage
    \/ DirResolveLanguage

SpecDirNegotiate == DirNegInit /\ [][DirNegNext]_vars

DirLangs == IF IsSome(OnceGet(I18N_STORE)) THEN DOMAIN Unwrap(OnceGet(I18N_STORE)) ELSE {}

\* The header entries with a hit in the directory catalog
DirHits ==
    IF IsSome(negEntries)
    THEN {i \in 1..Len(Unwrap(negEntries)) :
            LET e == Unwrap(negEntries)[i]
            IN  e.lower # <<>> /\ (e.lower \in DirLangs \/ e.primary \in DirLangs)}
    ELSE {}

(* C22: the negotiator over the directory catalog matches without regard to *)
(* case and by primary subtag: for the first entry in header order with a   *)
(* hit it returns the lower-cased full tag when that is a catalog language, *)
(* otherwise the part before the first '-'; with no hit, no header or an    *)
(* uninitialized catalog it returns "zh".                                    *)
C22_DirNegotiation ==
    IsSome(negDirResult) =>
        IF DirHits = {} THEN Unwrap(negDirResult) = <<"z", "h">>
        ELSE LET first == CHOOSE i \in DirHits : \A j \in DirHits : i <= j
                 e == Unwrap(negEntries)[first]
             IN  Unwrap(negDirResult) = IF e.lower \in DirLangs THEN e.lower ELSE e.primary

\* header "EN-US,en;q=0.9" with the catalog {en, zh} gives "en"
C22_Witness ==
    /\ negHeader = Some(<<"E", "N", "-", "U", "S", ",", "e", "n", ";", "q", "=", "0", ".", "9">>)
    /\ DirLangs = {s_en, s_zh}
    /\ negDirResult = Some(s_en)

\* The entries of the header
HeaderEntries ==
    IF IsSome(negEntries)
    THEN {Unwrap(negEntries)[i] : i \in 1..Len(Unwrap(negEntries))}
    ELSE {}

(* C27 as stated: the tag either resolve_language returns is the default    *)
(* tag or a tag that occurs in the Accept-Language header and that the      *)
(* catalog supports.                                                         *)
C27_HeaderTagOrDefault ==
    /\ IsSome(negResult) =>
           \/ Unwrap(negResult) = <<"z", "h">>
           \/ /\ Unwrap(negResult) \in InstalledLangs
              /\ \E e \in HeaderEntries : e.tag = Unwrap(negResult)
    /\ IsSome(negDirResult) =>
           \/ Unwrap(negDirResult) = <<"z", "h">>
           \/ /\ Unwrap(negDirResult) \in DirLangs
              /\ \E e \in HeaderEntries : e.tag = Unwrap(negDirResult)

(* C27, amended: the tag resolve_language of i18n/middleware.rs returns is  *)
(* the default tag or a tag of the header that the catalog supports; the    *)
(* tag resolve_language of i18n_middleware.rs returns is the default tag or *)
(* a language of the catalog that is the lower-cased form of a tag of the   *)
(* header or the primary subtag of that form.  Neither returns a tag the    *)
(* catalog does not support, the default apart.                              *)
C27_SupportedOrDefault ==
    /\ IsSome(negResult) =>
           \/ Unwrap(negResult) = <<"z", "h">>
           \/ /\ Unwrap(negResult) \in InstalledLangs
              /\ \E e \in HeaderEntries : e.tag = Unwrap(negResult)
    /\ IsSome(negDirResult) =>
           \/ Unwrap(negDirResult) = <<"z", "h">>
           \/ /\ Unwrap(negDirResult) \in DirLangs
              /\ \E e \in HeaderEntries : Unwrap(negDirResult) \in {e.lower, e.primary}

\* header "EN-US" with the catalog {en, zh} gives "en", which the header does
\* not hold
C27_Witness ==
    /\ negHeader = Some(<<"E", "N", "-", "U", "S">>)
    /\ DirLangs = {s_en, s_zh}
    /\ negDirResult = Some(s_en)
    /\ negResult = Some(s_zh)

----------------------------------------------------------------------------
(* i18n.rs: the directory catalog, and the build calls on both stores *)

s_toml == <<"t", "o", "m", "l">>
s_txt == <<"t", "x", "t">>
s_Ok == <<"O", "k">>

\* A directory entry: whether read_dir yields it, its file stem and extension,
\* whether it can be read, and its TOML content (None when it does not parse)
DirEntry(stem, ext, readable, content) ==
    [ok |-> TRUE, stem |-> stem, ext |-> ext, readable |-> readable, content |-> content]

\* The directories of tests::test_init_and_translate, and one that exists but
\* cannot be listed
Dirs ==
    [d \in {"/this/path/should/not/exist", "/unreadable", "dir", "dir2"} |->
        CASE d = "/this/path/should/not/exist" ->
                [exists |-> FALSE, listable |-> FALSE, entries |-> <<>>]
          [] d = "/unreadable" ->
                [exists |-> TRUE, listable |-> FALSE, entries |-> <<>>]
          [] d = "dir" ->
                [exists |-> TRUE, listable |-> TRUE, entries |->
                    << DirEntry(<<"b", "a", "d">>, Some(s_toml), TRUE, None),
                       DirEntry(s_en, Some(s_toml), TRUE, Some(s_200 :> s_Ok)),
                       DirEntry(<<"i", "g", "n", "o", "r", "e">>, Some(s_txt), TRUE,
                                Some(s_200 :> <<"I", "g", "n", "o", "r", "e", "d">>)),
                       DirEntry(s_zh, Some(s_toml), TRUE,
                                Some(s_200 :> <<"C", "h", "e", "n", "g">>)),
                       DirEntry(s_fr, Some(s_toml), FALSE, Some(s_200 :> <<"O", "u", "i">>)),
                       DirEntry(<<"R", "E", "A", "D", "M", "E">>, None, TRUE, None) >>]
          [] d = "dir2" ->
                [exists |-> TRUE, listable |-> TRUE, entries |->
                    << DirEntry(s_en, Some(s_toml), TRUE,
                                Some(s_200 :> <<"O", "v", "e", "r", "r", "i", "d", "d", "e", "n">>)) >>]]

\* load_locale_file(path): Some(<<lang, map>>) for a readable, parseable .toml file
load_locale_file(entry) ==
    IF ~IsSome(entry.ext) \/ Unwrap(entry.ext) # s_toml THEN None
    ELSE IF ~entry.readable THEN None
    ELSE IF ~IsSome(entry.content) THEN None
    ELSE Some(<<entry.stem, Unwrap(entry.content)>>)

\* entries.filter_map(Result::ok).filter_map(load_locale_file).collect() into
\* a HashMap: a later pair of the same language replaces an earlier one
\* A build that ends at the first file it cannot load, with what it has so far
RECURSIVE CollectInto_StopAtBadFile(_, _)
CollectInto_StopAtBadFile(map, entries) ==
    IF entries = <<>> THEN map
    ELSE LET e == Head(entries)
             loaded == IF e.ok THEN load_locale_file(e) ELSE None
         IN  IF IsSome(loaded)
             THEN CollectInto_StopAtBadFile((Unwrap(loaded)[1] :> Unwrap(loaded)[2]) @@ map,
                                            Tail(entries))
             ELSE map

RECURSIVE CollectInto(_, _)
CollectInto(map, entries) ==
    IF entries = <<>> THEN map
    ELSE LET e == Head(entries)
             loaded == IF e.ok THEN load_locale_file(e) ELSE None
         IN  IF IsSome(loaded)
             THEN CollectInto((Unwrap(loaded)[1] :> Unwrap(loaded)[2]) @@ map, Tail(entries))
             ELSE CollectInto(map, Tail(entries))

Collect(entries) == CollectInto(<<>>, entries)

\* translate(lang, key) of i18n.rs
translate(lang, key) ==
    LET store == OnceGet(I18N_STORE) IN
    IF IsSome(store) /\ lang \in DOMAIN Unwrap(store)
       /\ key \in DOMAIN Unwrap(store)[lang]
    THEN Some(Unwrap(store)[lang][key])
    ELSE None

\* The OnceLock a caller's operation sets
Cell(p) == IF caller[p].op = "init" THEN I18N_STORE ELSE I18N_STORAGE

SetCell(p, new) ==
    IF caller[p].op = "init"
    THEN I18N_STORE' = new /\ UNCHANGED I18N_STORAGE
    ELSE I18N_STORAGE' = new /\ UNCHANGED I18N_STORE

StoreOf(p) == IF caller[p].op = "init" THEN "dir" ELSE "compiled"

\* The first call to reach the set of its store is remembered
NoteAttempt(p) ==
    firstAttempt' =
        IF IsSome(firstAttempt[StoreOf(p)]) THEN firstAttempt
        ELSE [firstAttempt EXCEPT ![StoreOf(p)] = caller[p].store]

\* internal_init_i18n(data) is called: data is moved into I18N_STORAGE.set
CallInternalInit(p) ==
    \E data \in CompiledData :
        /\ caller[p].pc = "idle"
        /\ caller' = [caller EXCEPT ![p] =
               [op |-> "internal_init_i18n", arg |-> Some(data), pc |-> "set",
                store |-> Some(data), res |-> "none"]]
        /\ UNCHANGED <<I18N_STORAGE, I18N_STORE, firstAttempt, catOthers>>

\* init(dir) is called
CallInit(p) ==
    \E dir \in DOMAIN Dirs :
        /\ caller[p].pc = "idle"
        /\ caller' = [caller EXCEPT ![p] =
               [op |-> "init", arg |-> Some(dir), pc |-> "scan",
                store |-> None, res |-> "none"]]
        /\ UNCHANGED <<I18N_STORAGE, I18N_STORE, firstAttempt, catOthers>>

\* An init that installs an empty catalog when it finds no directory to read
InitScan_InstallEmpty(p) ==
    /\ caller[p].pc = "scan"
    /\ LET d == Dirs[Unwrap(caller[p].arg)] IN
       caller' = [caller EXCEPT ![p] =
           IF ~d.exists \/ ~d.listable
           THEN [@ EXCEPT !.pc = "set", !.store = Some(<<>>)]
           ELSE [@ EXCEPT !.pc = "set", !.store = Some(Collect(d.entries))]]
    /\ UNCHANGED <<I18N_STORAGE, I18N_STORE, firstAttempt, catOthers>>

\* init, lines 34-49: return when the directory is missing or cannot be
\* listed, else collect the store from its entries
InitScan(p) ==
    /\ caller[p].pc = "scan"
    /\ LET d == Dirs[Unwrap(caller[p].arg)] IN
       caller' = [caller EXCEPT ![p] =
           IF ~d.exists \/ ~d.listable
           THEN [@ EXCEPT !.pc = "done", !.res = "NoInstall"]
           ELSE [@ EXCEPT !.pc = "set", !.store = Some(Collect(d.entries))]]
    /\ UNCHANGED <<I18N_STORAGE, I18N_STORE, firstAttempt, catOthers>>

\* A set that replaces an installed value: last writer wins
OnceBegin_Overwrite(p) ==
    /\ caller[p].pc = "set"
    /\ Cell(p).state # "Running"
    /\ NoteAttempt(p)
    /\ UNCHANGED catOthers
    /\ SetCell(p, [Cell(p) EXCEPT !.state = "Running"])
    /\ caller' = [caller EXCEPT ![p].pc = "write"]

\* A set that tests for a value and writes one in two steps, excluding nobody
OnceBegin_NoExclusion(p) ==
    /\ caller[p].pc = "set"
    /\ NoteAttempt(p)
    /\ UNCHANGED catOthers
    /\ IF Cell(p).state = "Complete"
       THEN /\ caller' = [caller EXCEPT ![p].pc = "done", ![p].res = "Err"]
            /\ UNCHANGED <<I18N_STORAGE, I18N_STORE>>
       ELSE /\ SetCell(p, [Cell(p) EXCEPT !.state = "Running"])
            /\ caller' = [caller EXCEPT ![p].pc = "write"]

\* OnceLock::set, entry: Err(value) when the cell is initialized; the one caller
\* that finds the Once incomplete starts running the initialization; a caller
\* that finds it running waits for it to complete
OnceBegin(p) ==
    /\ caller[p].pc = "set"
    /\ Cell(p).state # "Running"
    /\ NoteAttempt(p)
    /\ UNCHANGED catOthers
    /\ IF Cell(p).state = "Complete"
       THEN /\ caller' = [caller EXCEPT ![p].pc = "done", ![p].res = "Err"]
            /\ UNCHANGED <<I18N_STORAGE, I18N_STORE>>
       ELSE /\ SetCell(p, [Cell(p) EXCEPT !.state = "Running"])
            /\ caller' = [caller EXCEPT ![p].pc = "write"]

\* OnceLock::set, inside call_once: the value is written into the slot
OnceWrite(p) ==
    /\ caller[p].pc = "write"
    /\ SetCell(p, [Cell(p) EXCEPT !.value = caller[p].store])
    /\ caller' = [caller EXCEPT ![p].pc = "finish"]
    /\ UNCHANGED <<firstAttempt, catOthers>>

\* OnceLock::set, end of call_once: the Once completes and set returns Ok(())
OnceFinish(p) ==
    /\ caller[p].pc = "finish"
    /\ SetCell(p, [Cell(p) EXCEPT !.state = "Complete"])
    /\ caller' = [caller EXCEPT ![p].pc = "done", ![p].res = "Ok"]
    /\ UNCHANGED <<firstAttempt, catOthers>>

CatInit ==
    /\ I18N_STORAGE = OnceNew
    /\ CatIdle
    /\ NegIdle
    /\ LocIdle
    /\ SrvNew
    /\ LogIdle
    /\ tCall = None
    /\ TplIdle
    /\ MapIdle

CatNext ==
    \/ \E p \in Callers : CallInternalInit(p)
    \/ \E p \in Callers : CallInit(p)
    \/ \E p \in Callers : InitScan(p)
    \/ \E p \in Callers : OnceBegin(p)
    \/ \E p \in Callers : OnceWrite(p)
    \/ \E p \in Callers : OnceFinish(p)

SpecCatalog == CatInit /\ [][CatNext]_vars

Installed(cell) == IsSome(OnceGet(cell))

(* C1: the catalog is first-writer-wins: after any sequence of build calls  *)
(* an installed catalog is the data of the first call that reached the      *)
(* install step of its store, a later call with different data returns, and *)
(* once a catalog is installed no step changes any (language, key) lookup.  *)
C1_FirstWriterWins ==
    [][ /\ Installed(I18N_STORAGE)' =>
               OnceGet(I18N_STORAGE)' = firstAttempt'.compiled
        /\ Installed(I18N_STORE)' => OnceGet(I18N_STORE)' = firstAttempt'.dir
        /\ \A p \in Callers : caller'[p].res = "Err" => caller'[p].pc = "done"
        /\ Installed(I18N_STORAGE) =>
               \A lang \in TLangs, key \in TKeys, args \in TArgs :
                   t(lang, key, args)' = t(lang, key, args)
        /\ Installed(I18N_STORE) =>
               \A lang \in TLangs, key \in TKeys :
                   translate(lang, key)' = translate(lang, key)
      ]_vars

\* init(dir) installed {en: Ok, zh: Cheng}, a later init(dir2) with "Overridden"
\* has returned, and translate("en", "200") is still "Ok"
C1_Witness ==
    \E p, q \in Callers :
        /\ caller[p].op = "init" /\ caller[p].arg = Some("dir") /\ caller[p].res = "Ok"
        /\ caller[q].op = "init" /\ caller[q].arg = Some("dir2") /\ caller[q].res = "Err"
        /\ caller[q].store # caller[p].store
        /\ translate(s_en, s_200) = Some(<<"O", "k">>)

\* The callers that have entered the initialization of a store
Winners(store) ==
    {p \in Callers : /\ caller[p].op # "none"
                     /\ StoreOf(p) = store
                     /\ caller[p].pc \in {"write", "finish"} \/ caller[p].res = "Ok"}

\* The complete catalog a caller's arguments stand for
CompleteData(p) ==
    IF caller[p].op = "init"
    THEN Some(Collect(Dirs[Unwrap(caller[p].arg)].entries))
    ELSE caller[p].arg

OneInstaller(store, cell) ==
    /\ Cardinality(Winners(store)) <= 1
    /\ \A p \in Callers :
           (caller[p].op # "none" /\ StoreOf(p) = store /\ caller[p].res = "Err") =>
               /\ Cardinality(Winners(store)) = 1
               /\ Installed(cell)
    /\ Installed(cell) =>
           \E w \in Winners(store) :
               /\ caller[w].res = "Ok"
               /\ OnceGet(cell) = CompleteData(w)

(* C2: when several callers run a catalog build concurrently, exactly one   *)
(* of them installs its catalog; every other caller that finishes, and      *)
(* every reader, finds either no catalog or that caller's complete catalog. *)
C2_ExactlyOnce ==
    /\ OneInstaller("compiled", I18N_STORAGE)
    /\ OneInstaller("dir", I18N_STORE)

\* One caller is inside the initialization of the compiled store, a reader
\* sees no catalog yet, and another caller with different data waits at its set
C2_Witness ==
    \E p, q \in Callers :
        /\ caller[p].op = "internal_init_i18n" /\ caller[p].pc = "finish"
        /\ caller[q].op = "internal_init_i18n" /\ caller[q].pc = "set"
        /\ caller[q].store # caller[p].store
        /\ I18N_STORAGE.value = caller[p].store
        /\ OnceGet(I18N_STORAGE) = None

\* The entries of a directory that are .toml files that can be read and parsed
ValidFiles(dir) ==
    LET es == Dirs[dir].entries IN
    {i \in 1..Len(es) : /\ es[i].ok
                        /\ es[i].ext = Some(<<"t", "o", "m", "l">>)
                        /\ es[i].readable
                        /\ IsSome(es[i].content)}

(* C18: the directory build skips every file that is not a .toml file, that *)
(* cannot be read or that cannot be parsed: the catalog it builds, and      *)
(* installs, holds exactly the remaining files, each under its base name    *)
(* with its content, whatever bad files the directory has beside them.      *)
C18_SkipsBadFiles ==
    \A p \in Callers :
        (caller[p].op = "init" /\ caller[p].pc \in {"set", "write", "finish", "done"}
         /\ caller[p].res \in {"none", "Ok"}) =>
            LET dir == Unwrap(caller[p].arg)
                es == Dirs[dir].entries
                built == Unwrap(caller[p].store)
            IN  /\ DOMAIN built = {es[i].stem : i \in ValidFiles(dir)}
                /\ \A i \in ValidFiles(dir) : built[es[i].stem] = Unwrap(es[i].content)
                /\ caller[p].res = "Ok" => OnceGet(I18N_STORE) = Some(built)

\* init("dir") installed en and zh and none of bad.toml, ignore.txt, the
\* unreadable fr.toml and README
C18_Witness ==
    /\ \E p \in Callers :
           caller[p].op = "init" /\ caller[p].arg = Some("dir") /\ caller[p].res = "Ok"
    /\ DOMAIN Unwrap(OnceGet(I18N_STORE)) = {s_en, s_zh}
    /\ translate(s_en, s_200) = Some(<<"O", "k">>)
    /\ translate(s_zh, s_200) = Some(<<"C", "h", "e", "n", "g">>)
    /\ translate(<<"i", "g", "n", "o", "r", "e">>, s_200) = None

\* The call is an init of a directory that does not exist or cannot be listed
BadDir(p) ==
    /\ caller[p].op = "init"
    /\ ~Dirs[Unwrap(caller[p].arg)].exists \/ ~Dirs[Unwrap(caller[p].arg)].listable

GoodDirWinner(q) ==
    /\ caller[q].op = "init"
    /\ ~BadDir(q)
    /\ q \in Winners("dir")

(* C20: an init of a directory that does not exist or cannot be read never  *)
(* reaches the install step and leaves the catalog uninitialized: as long   *)
(* as only such calls have been made the store is untouched, and an init of *)
(* a valid directory fails to install only when another init of a valid     *)
(* directory reached the install step.                                       *)
C20_NoInstallLeavesUninitialized ==
    /\ \A p \in Callers :
           BadDir(p) => /\ caller[p].pc \in {"scan", "done"}
                        /\ caller[p].res \in {"none", "NoInstall"}
    /\ (\A p \in Callers : (caller[p].op = "init" /\ caller[p].pc # "scan") => BadDir(p))
           => I18N_STORE = [state |-> "Incomplete", value |-> <<>>]
    /\ \A p \in Callers :
           (caller[p].op = "init" /\ caller[p].res = "Err") =>
               \E q \in Callers \ {p} : GoodDirWinner(q)
    /\ I18N_STORE.state # "Incomplete" => \E q \in Callers : GoodDirWinner(q)

\* init of the missing directory and init of the unreadable one have returned,
\* and init("dir") has installed its catalog
C20_Witness ==
    \E p, q, r \in Callers :
        /\ caller[p].op = "init" /\ caller[p].arg = Some("/this/path/should/not/exist")
        /\ caller[p].res = "NoInstall"
        /\ caller[q].op = "init" /\ caller[q].arg = Some("/unreadable")
        /\ caller[q].res = "NoInstall"
        /\ caller[r].op = "init" /\ caller[r].arg = Some("dir") /\ caller[r].res = "Ok"
        /\ translate(s_en, s_200) = Some(<<"O", "k">>)

----------------------------------------------------------------------------
(* i18n/middleware.rs: the task-local CURRENT_LANG and handle_i18n *)

s_frReq == s_fr \o <<";", "q", "=", "1", ".", "0">>

AssetsLocale ==
    (s_en :> (s_200 :> s_Ok) @@ s_zhCN :> (s_200 :> s_Ok) @@ s_fr :> (s_200 :> s_Ok))

\* The accept-language header of each request: they negotiate different tags
RequestHeaders ==
    << Some(s_en),
       None,
       Some(s_zhCN \o <<";", "q", "=", "0", ".", "9", ",">> \o s_en
                \o <<";", "q", "=", "0", ".", "8">>),
       Some(s_frReq) >>

HeaderOf(r) == RequestHeaders[((r - 1) % Len(RequestHeaders)) + 1]

\* A CURRENT_LANG that is one static shared by every thread
CellOf_ProcessGlobal(w) == 1

\* task_local!: the key's cell is a thread-local, one per worker thread
CellOf(w) == w

\* A scope that has no guard: what it installed stays when the poll ends
GuardDrop_NoRestore(cell, slot) == <<cell, slot>>

\* LocalKey::scope_inner, entry: the thread's cell and the future's slot are
\* swapped; the result is <<cell, slot>>
ScopeEnter(cell, slot) == <<slot, cell>>

\* LocalKey::scope_inner, the drop of its guard: they are swapped back
GuardDrop(cell, slot) == <<slot, cell>>

Busy(w) == \E r \in Requests : req[r].pc = "running" /\ req[r].worker = w

\* handle_i18n, lines 13-14: the tag is resolved and CURRENT_LANG.scope(lang,
\* next.run(req)) makes the TaskLocalFuture that holds it
HandleI18n(r) ==
    /\ req[r].pc = "new"
    /\ LET lang == resolve_language(HeaderOf(r)) IN
       req' = [req EXCEPT ![r] = [@ EXCEPT !.pc = "suspended", !.lang = Some(lang),
                                            !.slot = Some(lang)]]
    /\ UNCHANGED <<tls, locOthers>>

\* A worker thread polls the request's future: TaskLocalFuture::poll enters the scope
PollBegin(r, w) ==
    /\ req[r].pc = "suspended"
    /\ ~Busy(w)
    /\ LET in == ScopeEnter(tls[CellOf(w)], req[r].slot) IN
       /\ tls' = [tls EXCEPT ![CellOf(w)] = in[1]]
       /\ req' = [req EXCEPT ![r] = [@ EXCEPT !.pc = "running", !.worker = w,
                                               !.slot = in[2]]]
    /\ UNCHANGED locOthers

\* Code of the request reads the locale: CURRENT_LANG.try_with (resp/r.rs translate)
ReadLang(r) ==
    /\ req[r].pc = "running"
    /\ req' = [req EXCEPT ![r].reads = @ \cup {tls[CellOf(req[r].worker)]}]
    /\ UNCHANGED <<tls, locOthers>>

\* The inner future returns Pending: the guard leaves the scope, the task waits
PollPending(r) ==
    /\ req[r].pc = "running"
    /\ LET w == req[r].worker
           out == GuardDrop(tls[CellOf(w)], req[r].slot) IN
       /\ tls' = [tls EXCEPT ![CellOf(w)] = out[1]]
       /\ req' = [req EXCEPT ![r] = [@ EXCEPT !.pc = "suspended", !.worker = 0,
                                               !.slot = out[2]]]
    /\ UNCHANGED locOthers

\* The inner future returns Ready, with the response of a handler that returned
\* normally or with an error; the guard leaves the scope and the finished
\* TaskLocalFuture is dropped with its slot
PollReady(r) ==
    \E how \in {"returned", "failed"} :
        /\ req[r].pc = "running"
        /\ LET w == req[r].worker
               out == GuardDrop(tls[CellOf(w)], req[r].slot) IN
           /\ tls' = [tls EXCEPT ![CellOf(w)] = out[1]]
           /\ req' = [req EXCEPT ![r] = [@ EXCEPT !.pc = "done", !.worker = 0,
                                                   !.slot = None, !.exit = how]]
        /\ UNCHANGED locOthers

\* The handler panics during a poll: unwinding drops the guard, then the future
HandlerPanic(r) ==
    /\ req[r].pc = "running"
    /\ LET w == req[r].worker
           out == GuardDrop(tls[CellOf(w)], req[r].slot) IN
       /\ tls' = [tls EXCEPT ![CellOf(w)] = out[1]]
       /\ req' = [req EXCEPT ![r] = [@ EXCEPT !.pc = "done", !.worker = 0,
                                               !.slot = None, !.exit = "panicked"]]
    /\ UNCHANGED locOthers

\* The request is aborted between polls: a thread drops the TaskLocalFuture,
\* whose Drop enters the scope, drops the inner future and leaves the scope
RequestAbort(r, w) ==
    /\ req[r].pc = "suspended"
    /\ ~Busy(w)
    /\ LET in == ScopeEnter(tls[CellOf(w)], req[r].slot)
           out == GuardDrop(in[1], in[2]) IN
       /\ tls' = [tls EXCEPT ![CellOf(w)] = out[1]]
       /\ req' = [req EXCEPT ![r] = [@ EXCEPT !.pc = "done", !.slot = None,
                                               !.exit = "aborted"]]
    /\ UNCHANGED locOthers

LocInit ==
    /\ I18N_STORAGE = OnceOf(I18nAssets(AssetsLocale))
    /\ LocIdle
    /\ SrvNew
    /\ LogIdle
    /\ CatIdle
    /\ NegIdle
    /\ tCall = None
    /\ TplIdle
    /\ MapIdle

LocNext ==
    \/ \E r \in Requests : HandleI18n(r)
    \/ \E r \in Requests, w \in Workers : PollBegin(r, w)
    \/ \E r \in Requests : ReadLang(r)
    \/ \E r \in Requests : PollPending(r)
    \/ \E r \in Requests : PollReady(r)
    \/ \E r \in Requests : HandlerPanic(r)
    \/ \E r \in Requests, w \in Workers : RequestAbort(r, w)

SpecLocale == LocInit /\ [][LocNext]_vars

(* C3: for requests handled concurrently through handle_i18n, each with  *)
(* its own negotiated tag, every read of CURRENT_LANG made while a request  *)
(* is being processed returns that request's tag, and never the tag of      *)
(* another request.                                                          *)
C3_RequestIsolation ==
    \A r \in Requests :
        /\ req[r].reads \subseteq {req[r].lang}
        /\ \A o \in Requests \ {r} :
               (IsSome(req[o].lang) /\ req[o].lang # req[r].lang) =>
                   req[o].lang \notin req[r].reads

\* Two requests with different tags are each in a poll, on different threads,
\* a third waits between polls, and the first two have read their own tag
C3_Witness ==
    \E a, b, c \in Requests :
        /\ req[a].pc = "running" /\ req[b].pc = "running" /\ req[c].pc = "suspended"
        /\ req[a].lang = Some(s_en) /\ req[b].lang = Some(s_zh)
        /\ req[a].reads = {Some(s_en)} /\ req[b].reads = {Some(s_zh)}
        /\ req[c].reads # {}

\* Where the binding of a request is: in its future's slot between polls, in
\* the cell of the polling thread during a poll
BoundIn(r) ==
    IF req[r].pc = "running" THEN tls[CellOf(req[r].worker)] ELSE req[r].slot

(* C4: the ambient locale of a request goes absent, bound, unbound, in that *)
(* order: nothing is bound before handle_i18n, the request's tag is bound   *)
(* until its handling ends, and when it ends, by a normal or failed return, *)
(* a panic or an abort, the binding is released: the future holds no tag    *)
(* and a read on a thread that is in no poll finds no tag.                  *)
C4_ScopedBinding ==
    [][ /\ \A r \in Requests :
            /\ req'[r].pc = "new" => req'[r].slot = None
            /\ req'[r].pc \in {"suspended", "running"} =>
                   BoundIn(r)' = req'[r].lang /\ IsSome(req'[r].lang)
            /\ req'[r].pc = "done" => req'[r].slot = None /\ req'[r].worker = 0
            /\ req[r].pc = "done" => req'[r].pc = "done"
            /\ req[r].pc # "new" => req'[r].pc # "new"
        /\ \A w \in Workers : ~Busy(w)' => tls'[CellOf(w)] = None
      ]_vars

\* Three requests that were bound and read their tag have ended, one by a
\* panic, one by an abort between polls, one by a failed return
C4_Witness ==
    \E a, b, c \in Requests :
        /\ req[a].exit = "panicked" /\ req[b].exit = "aborted" /\ req[c].exit = "failed"
        /\ \A r \in {a, b, c} : req[r].reads = {req[r].lang} /\ req[r].slot = None
        /\ \A w \in Workers : tls[w] = None

----------------------------------------------------------------------------
(* server.rs: the WebServer builder *)

MaxCalls == 4

Paths == {"/", "/a", "/b"}
LayerFns == {"f"}

\* Router::layer: the layer wraps every route the router has at that moment
RouterLayer(r, layer) == [path \in DOMAIN r |-> Append(r[path], layer)]

\* Router::merge of a router that has the one route path, with no layer
RouterMerge(r, path) == (path :> <<>>) @@ r

\* A layer_i18n that layers the router at once, as before the layers were deferred
layer_i18n_Eager ==
    /\ ~started
    /\ Len(calls) < MaxCalls
    /\ router' = RouterLayer(router, "i18n")
    /\ calls' = Append(calls, <<"layer_i18n">>)
    /\ UNCHANGED <<middlewares, started, served, srvOthers>>

layer_i18n ==
    /\ ~started
    /\ Len(calls) < MaxCalls
    /\ middlewares' = Append(middlewares, "i18n")
    /\ calls' = Append(calls, <<"layer_i18n">>)
    /\ UNCHANGED <<router, started, served, srvOthers>>

layer_fn ==
    \E f \in LayerFns :
        /\ ~started
        /\ Len(calls) < MaxCalls
        /\ middlewares' = Append(middlewares, f)
        /\ calls' = Append(calls, <<"layer_fn", f>>)
        /\ UNCHANGED <<router, started, served, srvOthers>>

\* mount(router): a router with one route, whose path is not yet routed
mount ==
    \E path \in Paths \ DOMAIN router :
        /\ ~started
        /\ Len(calls) < MaxCalls
        /\ router' = RouterMerge(router, path)
        /\ calls' = Append(calls, <<"mount", path>>)
        /\ UNCHANGED <<middlewares, started, served, srvOthers>>

RECURSIVE ApplyMiddlewares(_, _)
ApplyMiddlewares(r, ms) ==
    IF ms = <<>> THEN r
    ELSE ApplyMiddlewares(RouterLayer(r, Head(ms)), Tail(ms))

\* start, lines 48-50: every stored middleware is applied to the router
start ==
    /\ ~started
    /\ router' = ApplyMiddlewares(router, middlewares)
    /\ started' = TRUE
    /\ UNCHANGED <<middlewares, calls, served, srvOthers>>

s_notset == <<"n", "o", "t", " ", "s", "e", "t">>

\* The served router runs a route's handler inside the layers around it: the
\* handler reads CURRENT_LANG, which handle_i18n has bound if it is one of them
Serve ==
    \E path \in DOMAIN router, header \in {None, Some(s_en)} :
        /\ started
        /\ served' = Some([path |-> path,
                           lang |-> IF \E i \in 1..Len(router[path]) : router[path][i] = "i18n"
                                    THEN resolve_language(header)
                                    ELSE s_notset])
        /\ UNCHANGED <<router, middlewares, started, calls, srvOthers>>

SrvInit ==
    /\ I18N_STORAGE = OnceOf(I18nAssets(AssetsB))
    /\ SrvNew
    /\ LogIdle
    /\ LocIdle
    /\ CatIdle
    /\ NegIdle
    /\ tCall = None
    /\ TplIdle
    /\ MapIdle

SrvNext ==
    \/ layer_i18n
    \/ layer_fn
    \/ mount
    \/ start
    \/ Serve

SpecServer == SrvInit /\ [][SrvNext]_vars

CalledLayerI18n == \E i \in 1..Len(calls) : calls[i] = <<"layer_i18n">>

(* C5: for every order in which layer_i18n and mount are called before      *)
(* start, once the server has started every mounted route is wrapped by the *)
(* i18n layer, all routes carry the same layers whether they were mounted   *)
(* before or after layer_i18n, and a handler that runs finds the locale     *)
(* bound.                                                                    *)
C5_OrderIndependent ==
    (started /\ CalledLayerI18n) =>
        /\ \A path \in DOMAIN router :
               /\ \E i \in 1..Len(router[path]) : router[path][i] = "i18n"
               /\ \A other \in DOMAIN router : router[other] = router[path]
        /\ IsSome(served) => Unwrap(served).lang # <<"n", "o", "t", " ", "s", "e", "t">>

\* layer_i18n was called between two mounts; after start the handler of the
\* route mounted last ran and read a locale
C5_Witness ==
    /\ calls = << <<"mount", "/a">>, <<"layer_i18n">>, <<"mount", "/">> >>
    /\ started
    /\ IsSome(served)
    /\ Unwrap(served).path = "/"
    /\ Unwrap(served).lang = s_en

----------------------------------------------------------------------------
(* rivus-axum-macro: parse_template on every short template, and the text   *)
(* the renderer makes of its parts                                           *)

MaxTemplateLen == 4

TplChars == {"a", "{", "}"}

Templates == UNION {[1..n -> TplChars] : n \in 0..MaxTemplateLen}

s_a == <<"a">>

\* Argument lists for the placeholder names these templates can have
TplArgs ==
    { <<>>,
      << <<s_a, <<"x">> >> >>,
      << <<s_a, <<"{", "a", "}">> >>, <<<<>>, <<"e">> >> >> }

\* The templates of the parser's own tests
TestTemplates ==
    { <<"H", "e", "l", "l", "o", " ", "{", "n", "a", "m", "e">>,
      <<"H", "e", "l", "l", "o", ",", " ", "{", "n", "a", "m", "e", "}", "!">>,
      <<"{", "a", "}", "{", "b", "}">> }

TplInit ==
    /\ I18N_STORAGE = OnceNew
    /\ tplInput \in {Some(raw) : raw \in Templates \cup TestTemplates}
    /\ tplParts = None
    /\ tplResult = None
    /\ tCall = None
    /\ NegIdle
    /\ CatIdle
    /\ LocIdle
    /\ SrvNew
    /\ LogIdle
    /\ MapIdle

\* i18n_assets, line 47: the value of a key is parsed into its parts
ParseTemplate ==
    /\ tplParts = None
    /\ tplParts' = Some(parse_template(Unwrap(tplInput)))
    /\ UNCHANGED <<tplInput, tplResult, tplOthers>>

\* t, lines 32-46: the parts of the entry are rendered with the arguments
RenderTemplate ==
    \E args \in TplArgs :
        /\ IsSome(tplParts)
        /\ tplResult' = Some([args |-> args,
                              text |-> RenderParts(Unwrap(tplParts), args)])
        /\ UNCHANGED <<tplInput, tplParts, tplOthers>>

TplNext ==
    \/ ParseTemplate
    \/ RenderTemplate

SpecParse == TplInit /\ [][TplNext]_vars

\* Every '{' of the text is followed later by a '}'
Terminated(raw) ==
    \A i \in 1..Len(raw) :
        raw[i] = "{" => \E j \in (i + 1)..Len(raw) : raw[j] = "}"

\* The segments written back: a literal as is, a placeholder name in braces
Unparse(parts) ==
    Concat([i \in 1..Len(parts) |->
               IF parts[i].kind = "Static" THEN parts[i].text
               ELSE <<"{">> \o parts[i].text \o <<"}">>])

(* C11: parsing is lossless: for every text in which every '{' is followed  *)
(* later by a '}', the segments of parse_template written back in order,    *)
(* literals as they are and placeholder names wrapped in braces, give the   *)
(* text exactly.                                                             *)
C11_ParseLossless ==
    (IsSome(tplParts) /\ Terminated(Unwrap(tplInput))) =>
        Unparse(Unwrap(tplParts)) = Unwrap(tplInput)

\* "}{}a" is parsed into the literal "}", a placeholder of empty name and the
\* literal "a"
C11_Witness ==
    /\ tplInput = Some(<<"}", "{", "}", "a">>)
    /\ tplParts = Some(<<Static(<<"}">>), Placeholder(<<>>), Static(<<"a">>)>>)

\* The first '{' of the text that no '}' follows, 0 when there is none
FirstOrphan(raw) ==
    LET orphans == {i \in 1..Len(raw) :
                       raw[i] = "{" /\ \A j \in (i + 1)..Len(raw) : raw[j] # "}"}
    IN  IF orphans = {} THEN 0
        ELSE CHOOSE i \in orphans : \A k \in orphans : i <= k

(* C12: when a '{' of the template has no closing '}', the rest of the      *)
(* input from that '{' on is literal text: the rendered message ends with   *)
(* the '{' and the text after it.                                            *)
C12_OrphanBraceKept ==
    (IsSome(tplResult) /\ FirstOrphan(Unwrap(tplInput)) # 0) =>
        LET raw == Unwrap(tplInput)
            rest == SubSeq(raw, FirstOrphan(raw), Len(raw))
            text == Unwrap(tplResult).text
        IN  /\ Len(text) >= Len(rest)
            /\ SubSeq(text, Len(text) - Len(rest) + 1, Len(text)) = rest

\* The pieces of a text between its '{', the empty ones left out
Pieces(text) == SelectSeq(Split(text, "{"), LAMBDA piece : piece # <<>>)

(* C23: for a '{' that no '}' follows, the parser emits the text before it  *)
(* as segments of its own and the text after it as a separate literal,      *)
(* dropping the '{' itself: parse_template("Hello {name") is                 *)
(* [Static("Hello "), Static("name")].                                       *)
C23_OrphanBraceDropped ==
    (IsSome(tplParts) /\ FirstOrphan(Unwrap(tplInput)) # 0) =>
        LET raw == Unwrap(tplInput)
            parts == Unwrap(tplParts)
            at == FirstOrphan(raw)
            after == Pieces(SubSeq(raw, at + 1, Len(raw)))
            n == Len(parts) - Len(after)
        IN  /\ n >= 0
            /\ Unparse(SubSeq(parts, 1, n)) = SubSeq(raw, 1, at - 1)
            /\ \A i \in 1..Len(after) : parts[n + i] = Static(after[i])
            /\ (\A i \in 1..(at - 1) : raw[i] \notin {"{", "}"}) =>
                    SubSeq(parts, 1, n) =
                        IF at > 1 THEN <<Static(SubSeq(raw, 1, at - 1))>> ELSE <<>>

C23_Witness ==
    /\ tplInput = Some(<<"H", "e", "l", "l", "o", " ", "{", "n", "a", "m", "e">>)
    /\ tplParts = Some(<<Static(<<"H", "e", "l", "l", "o", " ">>), Static(<<"n", "a", "m", "e">>)>>)

(* C24: parse_template never emits an empty literal segment, and for the    *)
(* empty input it returns the empty sequence.                                *)
C24_NoEmptyLiteral ==
    IsSome(tplParts) =>
        /\ \A i \in 1..Len(Unwrap(tplParts)) :
               Unwrap(tplParts)[i].kind = "Static" => Unwrap(tplParts)[i].text # <<>>
        /\ Unwrap(tplInput) = <<>> => Unwrap(tplParts) = <<>>

\* "{}{}" has no literal before, between or after its placeholders
C24_Witness ==
    /\ tplInput = Some(<<"{", "}", "{", "}">>)
    /\ tplParts = Some(<<Placeholder(<<>>), Placeholder(<<>>)>>)

----------------------------------------------------------------------------
(* resp/r.rs and r.rs: the response envelope and the error mappers *)

\* The values of Code::X.as_i32() that the tests read in the response bodies
Code_Ok == 200
Code_BadRequest == 400
Code_InternalServerError == 500
Code_MissingParam == 901
Code_IllegalParam == 902

DigitChar == <<"0", "1", "2", "3", "4", "5", "6", "7", "8", "9">>

RECURSIVE NatToString(_)
NatToString(n) ==
    IF n < 10 THEN <<DigitChar[n + 1]>>
    ELSE NatToString(n \div 10) \o <<DigitChar[(n % 10) + 1]>>

\* i32::to_string
to_string(n) == IF n < 0 THEN <<"-">> \o NatToString(-n) ELSE NatToString(n)

s_400 == <<"4", "0", "0">>
s_500 == <<"5", "0", "0">>
s_901 == <<"9", "0", "1">>
s_902 == <<"9", "0", "2">>
s_age == <<"a", "g", "e">>
s_required == <<"r", "e", "q", "u", "i", "r", "e", "d">>
s_length == <<"l", "e", "n", "g", "t", "h">>
s_range == <<"r", "a", "n", "g", "e">>
s_email == <<"e", "m", "a", "i", "l">>
s_phone == <<"p", "h", "o", "n", "e">>

\* The locale files of the application: per language, key -> raw template
LocaleFiles ==
    (s_en :> (s_200 :> s_Ok
              @@ s_400 :> <<"B", "a", "d", " ", "{", "n", "a", "m", "e", "}", " ", "{", "w", "h", "o", "}">>
              @@ s_500 :> <<"O", "o", "p", "s">>
              @@ s_901 :> <<"M", "i", "s", "s", "i", "n", "g">>
              @@ s_902 :> <<"I", "l", "l", "e", "g", "a", "l">>)
     @@ s_zh :> (s_200 :> <<"H", "a", "o">>
                 @@ s_500 :> <<"C", "u", "o">>
                 @@ s_901 :> <<"Q", "u", "e", " ", "{", "n", "a", "m", "e", "}">>))

\* The application errors: resp/err.rs E::Code, E::Msg, E::Sys, E::Val (err.rs
\* Err::Of, Err::OfMessage, Err::System, Err::Validate have the same shape)
E_Code(code) ==
    [kind |-> "Code", code |-> code, params |-> <<>>, cause |-> <<>>, errors |-> <<>>]
E_Msg(code, params) ==
    [kind |-> "Msg", code |-> code, params |-> params, cause |-> <<>>, errors |-> <<>>]
E_Sys(cause) ==
    [kind |-> "Sys", code |-> 0, params |-> <<>>, cause |-> cause, errors |-> <<>>]
E_Val(errors) ==
    [kind |-> "Val", code |-> 0, params |-> <<>>, cause |-> <<>>, errors |-> errors]

\* validator::ValidationError: its code, its "min" and "max" params, its message
ValidationError(code, min, max, message) ==
    [code |-> code, min |-> min, max |-> max, message |-> message]

\* The enumerations of a set, one for each order a HashMap may iterate in
Orderings(S) ==
    {f \in [1..Cardinality(S) -> S] : \A i, j \in DOMAIN f : i # j => f[i] # f[j]}

\* The pairs of a map in the given order of its keys
ArgsOf(params, order) == [i \in 1..Len(order) |-> <<order[i], params[order[i]]>>]

\* [String]::join(sep)
RECURSIVE Join(_, _)
Join(ss, sep) ==
    IF ss = <<>> THEN <<>>
    ELSE IF Len(ss) = 1 THEN ss[1]
    ELSE ss[1] \o sep \o Join(Tail(ss), sep)

\* resp/r.rs translate: CURRENT_LANG.try_with fails outside of a scope, and
\* the message is then rendered in "zh"
resp_translate(code, params, scope) ==
    LET key == to_string(code) IN
    IF IsSome(scope) THEN t(Unwrap(scope), key, params)
    ELSE t(s_zh, key, params)

\* A detail that ignores the message an error carries
detail_of_IgnoreMessage(e) ==
    IF e.code = s_required THEN <<"i", "s", " ", "r", "e", "q", "u", "i", "r", "e", "d">>
    ELSE IF e.code = s_length THEN
        IF IsSome(e.min) /\ IsSome(e.max)
        THEN <<"l", "e", "n", "g", "t", "h", " ", "m", "u", "s", "t", " ", "b", "e", " ", "b", "e", "t", "w", "e", "e", "n", " ">> \o to_string(Unwrap(e.min))
                 \o <<" ", "a", "n", "d", " ">> \o to_string(Unwrap(e.max))
        ELSE IF IsSome(e.min)
        THEN <<"l", "e", "n", "g", "t", "h", " ", "m", "u", "s", "t", " ", "b", "e", " ", "a", "t", " ", "l", "e", "a", "s", "t", " ">> \o to_string(Unwrap(e.min))
        ELSE IF IsSome(e.max)
        THEN <<"l", "e", "n", "g", "t", "h", " ", "m", "u", "s", "t", " ", "b", "e", " ", "a", "t", " ", "m", "o", "s", "t", " ">> \o to_string(Unwrap(e.max))
        ELSE <<"l", "e", "n", "g", "t", "h", " ", "i", "s", " ", "i", "n", "v", "a", "l", "i", "d">>
    ELSE IF e.code = s_range THEN
        IF IsSome(e.min) /\ IsSome(e.max)
        THEN <<"m", "u", "s", "t", " ", "b", "e", " ", "b", "e", "t", "w", "e", "e", "n", " ">> \o to_string(Unwrap(e.min))
                 \o <<" ", "a", "n", "d", " ">> \o to_string(Unwrap(e.max))
        ELSE IF IsSome(e.min)
        THEN <<"m", "u", "s", "t", " ", "b", "e", " ", "a", "t", " ", "l", "e", "a", "s", "t", " ">> \o to_string(Unwrap(e.min))
        ELSE IF IsSome(e.max)
        THEN <<"m", "u", "s", "t", " ", "b", "e", " ", "a", "t", " ", "m", "o", "s", "t", " ">> \o to_string(Unwrap(e.max))
        ELSE <<"v", "a", "l", "u", "e", " ", "i", "s", " ", "o", "u", "t", " ", "o", "f", " ", "r", "a", "n", "g", "e">>
    ELSE IF e.code = s_email THEN <<"m", "u", "s", "t", " ", "b", "e", " ", "a", " ", "v", "a", "l", "i", "d", " ", "e", "m", "a", "i", "l">>
    ELSE <<"i", "n", "v", "a", "l", "i", "d", " ", "(">> \o e.code \o <<")">>

\* format_validation_errors, lines 109-141: the detail of one error
detail_of(e) ==
    IF e.code = s_required THEN <<"i", "s", " ", "r", "e", "q", "u", "i", "r", "e", "d">>
    ELSE IF e.code = s_length THEN
        IF IsSome(e.min) /\ IsSome(e.max)
        THEN <<"l", "e", "n", "g", "t", "h", " ", "m", "u", "s", "t", " ", "b", "e", " ", "b", "e", "t", "w", "e", "e", "n", " ">> \o to_string(Unwrap(e.min))
                 \o <<" ", "a", "n", "d", " ">> \o to_string(Unwrap(e.max))
        ELSE IF IsSome(e.min)
        THEN <<"l", "e", "n", "g", "t", "h", " ", "m", "u", "s", "t", " ", "b", "e", " ", "a", "t", " ", "l", "e", "a", "s", "t", " ">> \o to_string(Unwrap(e.min))
        ELSE IF IsSome(e.max)
        THEN <<"l", "e", "n", "g", "t", "h", " ", "m", "u", "s", "t", " ", "b", "e", " ", "a", "t", " ", "m", "o", "s", "t", " ">> \o to_string(Unwrap(e.max))
        ELSE <<"l", "e", "n", "g", "t", "h", " ", "i", "s", " ", "i", "n", "v", "a", "l", "i", "d">>
    ELSE IF e.code = s_range THEN
        IF IsSome(e.min) /\ IsSome(e.max)
        THEN <<"m", "u", "s", "t", " ", "b", "e", " ", "b", "e", "t", "w", "e", "e", "n", " ">> \o to_string(Unwrap(e.min))
                 \o <<" ", "a", "n", "d", " ">> \o to_string(Unwrap(e.max))
        ELSE IF IsSome(e.min)
        THEN <<"m", "u", "s", "t", " ", "b", "e", " ", "a", "t", " ", "l", "e", "a", "s", "t", " ">> \o to_string(Unwrap(e.min))
        ELSE IF IsSome(e.max)
        THEN <<"m", "u", "s", "t", " ", "b", "e", " ", "a", "t", " ", "m", "o", "s", "t", " ">> \o to_string(Unwrap(e.max))
        ELSE <<"v", "a", "l", "u", "e", " ", "i", "s", " ", "o", "u", "t", " ", "o", "f", " ", "r", "a", "n", "g", "e">>
    ELSE IF e.code = s_email THEN <<"m", "u", "s", "t", " ", "b", "e", " ", "a", " ", "v", "a", "l", "i", "d", " ", "e", "m", "a", "i", "l">>
    ELSE IF IsSome(e.message) THEN Unwrap(e.message)
    ELSE <<"i", "n", "v", "a", "l", "i", "d", " ", "(">> \o e.code \o <<")">>

\* format_validation_errors, lines 108-143: the lines of the errors of one field
FieldLines(field, errs) ==
    [i \in 1..Len(errs) |-> field \o <<":", " ">> \o detail_of(errs[i])]

\* A formatter that reports one error for each field
format_validation_errors_OnePerField(errors, order, scope) ==
    LET msgs == Concat([k \in 1..Len(order) |->
                    SubSeq(FieldLines(order[k], errors[order[k]]), 1, 1)])
    IN  IF msgs = <<>> THEN resp_translate(Code_IllegalParam, <<>>, scope)
        ELSE Join(msgs, <<";", " ">>)

\* format_validation_errors(err), with the order in which field_errors() yields
\* the fields
format_validation_errors(errors, order, scope) ==
    LET msgs == Concat([k \in 1..Len(order) |-> FieldLines(order[k], errors[order[k]])])
    IN  IF msgs = <<>> THEN resp_translate(Code_IllegalParam, <<>>, scope)
        ELSE Join(msgs, <<";", " ">>)

LogRecord(level, err) == [level |-> level, detail |-> err]

Mapped(code, message, log) == [code |-> code, message |-> message, log |-> log]

\* A mapper that renders a message with parameters without its parameters
map_err_DropParams(err, order, scope) ==
    IF err.kind \in {"Code", "Msg"}
    THEN Mapped(err.code, resp_translate(err.code, <<>>, scope), <<>>)
    ELSE IF err.kind = "Sys"
    THEN Mapped(Code_InternalServerError,
                resp_translate(Code_InternalServerError, <<>>, scope),
                <<LogRecord("error", err)>>)
    ELSE Mapped(Code_IllegalParam, format_validation_errors(err.errors, order, scope),
                <<LogRecord("debug", err)>>)

\* A mapper that answers a system failure with the text of its cause
map_err_LeakCause(err, order, scope) ==
    IF err.kind = "Code"
    THEN Mapped(err.code, resp_translate(err.code, <<>>, scope), <<>>)
    ELSE IF err.kind = "Msg"
    THEN Mapped(err.code, resp_translate(err.code, ArgsOf(err.params, order), scope), <<>>)
    ELSE IF err.kind = "Sys"
    THEN Mapped(Code_InternalServerError, err.cause, <<LogRecord("error", err)>>)
    ELSE Mapped(Code_IllegalParam, format_validation_errors(err.errors, order, scope),
                <<LogRecord("debug", err)>>)

\* A mapper that tells a missing parameter from an illegal one, as r.rs does
map_err_MissingParam(err, order, scope) ==
    IF err.kind = "Code"
    THEN Mapped(err.code, resp_translate(err.code, <<>>, scope), <<>>)
    ELSE IF err.kind = "Msg"
    THEN Mapped(err.code, resp_translate(err.code, ArgsOf(err.params, order), scope), <<>>)
    ELSE IF err.kind = "Sys"
    THEN Mapped(Code_InternalServerError,
                resp_translate(Code_InternalServerError, <<>>, scope),
                <<LogRecord("error", err)>>)
    ELSE Mapped(IF \E f \in DOMAIN err.errors : \E i \in 1..Len(err.errors[f]) :
                       err.errors[f][i].code = s_required
                THEN Code_MissingParam ELSE Code_IllegalParam,
                format_validation_errors(err.errors, order, scope),
                <<LogRecord("debug", err)>>)

\* resp/r.rs map_err(err): the code, the message and what is logged; order is
\* the order in which the HashMap of the error (the params of E::Msg, the
\* field errors of E::Val) is iterated
map_err(err, order, scope) ==
    IF err.kind = "Code"
    THEN Mapped(err.code, resp_translate(err.code, <<>>, scope), <<>>)
    ELSE IF err.kind = "Msg"
    THEN Mapped(err.code, resp_translate(err.code, ArgsOf(err.params, order), scope), <<>>)
    ELSE IF err.kind = "Sys"
    THEN Mapped(Code_InternalServerError,
                resp_translate(Code_InternalServerError, <<>>, scope),
                <<LogRecord("error", err)>>)
    ELSE Mapped(Code_IllegalParam, format_validation_errors(err.errors, order, scope),
                <<LogRecord("debug", err)>>)

\* str::replace: every match of pat, left to right, is replaced by v
RECURSIVE Replace(_, _, _)
Replace(s, pat, v) ==
    IF Len(s) < Len(pat) THEN s
    ELSE IF SubSeq(s, 1, Len(pat)) = pat
    THEN v \o Replace(SubSeq(s, Len(pat) + 1, Len(s)), pat, v)
    ELSE <<Head(s)>> \o Replace(Tail(s), pat, v)

\* r.rs message_of: the entry of the directory catalog for the code in the
\* locale of the scope, the code itself when there is no scope or no entry
r_message_of(code, scope) ==
    LET key == to_string(code)
        found == IF IsSome(scope) THEN translate(Unwrap(scope), key) ELSE None
    IN  IF IsSome(found) THEN Unwrap(found) ELSE key

\* r.rs map_err, lines 65-67: params.iter().fold(base, replace "{k}" by v)
RECURSIVE FoldReplace(_, _)
FoldReplace(acc, args) ==
    IF args = <<>> THEN acc
    ELSE FoldReplace(Replace(acc, <<"{">> \o Head(args)[1] \o <<"}">>, Head(args)[2]),
                     Tail(args))

\* A mapper with the one illegal-parameter code for every validation failure
r_map_err_AlwaysIllegal(err, order, scope) ==
    IF err.kind = "Code"
    THEN Mapped(err.code, r_message_of(err.code, scope), <<>>)
    ELSE IF err.kind = "Msg"
    THEN Mapped(err.code,
                FoldReplace(r_message_of(err.code, scope), ArgsOf(err.params, order)),
                <<>>)
    ELSE IF err.kind = "Sys"
    THEN Mapped(Code_InternalServerError, r_message_of(Code_InternalServerError, scope),
                <<LogRecord("error", err)>>)
    ELSE Mapped(Code_IllegalParam, r_message_of(Code_IllegalParam, scope),
                <<LogRecord("error", err)>>)

\* r.rs map_err(err)
r_map_err(err, order, scope) ==
    IF err.kind = "Code"
    THEN Mapped(err.code, r_message_of(err.code, scope), <<>>)
    ELSE IF err.kind = "Msg"
    THEN Mapped(err.code,
                FoldReplace(r_message_of(err.code, scope), ArgsOf(err.params, order)),
                <<>>)
    ELSE IF err.kind = "Sys"
    THEN Mapped(Code_InternalServerError, r_message_of(Code_InternalServerError, scope),
                <<LogRecord("error", err)>>)
    ELSE LET is_missing == \E f \in DOMAIN err.errors : \E i \in 1..Len(err.errors[f]) :
                               err.errors[f][i].code = s_required
             code == IF is_missing THEN Code_MissingParam ELSE Code_IllegalParam
         IN  Mapped(code, r_message_of(code, scope), <<LogRecord("error", err)>>)

\* A response that is a server error for every code but Ok
into_response_ErrorsAre5xx(r) == IF r.code # Code_Ok THEN 500 ELSE 200

\* R::into_response: the status of the response
into_response(r) == IF r.code = Code_InternalServerError THEN 500 ELSE 200

----------------------------------------------------------------------------
(* The error mappers called with every short error, inside and outside of a *)
(* locale scope, and the response made of the envelope                       *)

MaxErrors == 2

\* The errors the validator reports for a name: Option<String> and an
\* age: Option<i32>
NameRules ==
    { ValidationError(s_required, None, None, None),
      ValidationError(s_length, Some(1), Some(10), None),
      ValidationError(s_length, Some(1), None, None),
      ValidationError(s_length, None, Some(10), None),
      ValidationError(s_length, None, None, None),
      ValidationError(s_email, None, None, None),
      ValidationError(s_phone, None, None, None),
      ValidationError(s_phone, None, None, Some(<<"b", "a", "d", ";", " ", "n", "o">>)) }

AgeRules ==
    { ValidationError(s_required, None, None, None),
      ValidationError(s_range, Some(0), Some(150), None),
      ValidationError(s_range, Some(-1), None, None),
      ValidationError(s_range, None, Some(150), None),
      ValidationError(s_range, None, None, None) }

\* field_errors() of a failure with these errors of name and of age: a field
\* is present when it has an error
FieldErrors(ofName, ofAge) ==
    [f \in (IF ofName = <<>> THEN {} ELSE {s_name}) \cup (IF ofAge = <<>> THEN {} ELSE {s_age})
        |-> IF f = s_name THEN ofName ELSE ofAge]

ValidationFailures ==
    UNION { UNION { { FieldErrors(a, b) : a \in [1..n1 -> NameRules],
                                          b \in [1..n2 -> AgeRules] } :
                    n2 \in 0..(MaxErrors - n1) } :
            n1 \in 0..MaxErrors }

MapCodes == {Code_BadRequest, 404, Code_InternalServerError, -1}

MapParams ==
    { <<>>,
      [n \in {s_name} |-> s_Jason],
      [n \in {s_name, s_who} |-> IF n = s_name THEN s_Bob ELSE <<"{", "n", "a", "m", "e", "}">>] }

Causes == {<<"b", "o", "o", "m">>, <<"d", "b">>}

Errors ==
    {E_Code(c) : c \in MapCodes}
    \cup {E_Msg(c, p) : c \in MapCodes, p \in MapParams}
    \cup {E_Sys(c) : c \in Causes}
    \cup {E_Val(f) : f \in ValidationFailures}

\* What CURRENT_LANG holds where the mapper is called: nothing outside of a
\* scope, the tag of the request inside
Scopes == {None, Some(s_en), Some(s_zh), Some(s_fr)}

OrdersOf(err) ==
    IF err.kind = "Msg" THEN Orderings(DOMAIN err.params)
    ELSE IF err.kind = "Val" THEN Orderings(DOMAIN err.errors)
    ELSE {<<>>}

MapInit ==
    /\ I18N_STORAGE = OnceOf(I18nAssets(LocaleFiles))
    /\ I18N_STORE = OnceOf(LocaleFiles)
    /\ caller = [p \in Callers |-> NotCalled]
    /\ firstAttempt = [compiled |-> Some(I18nAssets(LocaleFiles)), dir |-> Some(LocaleFiles)]
    /\ MapIdle
    /\ tCall = None
    /\ NegIdle
    /\ LocIdle
    /\ SrvNew
    /\ LogIdle
    /\ TplIdle

\* A handler returns resp/r.rs R::err(err)
R_err ==
    \E err \in Errors, scope \in Scopes :
        \E order \in OrdersOf(err) :
            /\ mapCall = None
            /\ LET m == map_err(err, order, scope) IN
               /\ mapCall' = Some([fn |-> "resp::r::R::err", err |-> Some(err),
                                   order |-> order, scope |-> scope])
               /\ envelope' = Some([code |-> m.code, message |-> m.message, data |-> None])
               /\ logged' = m.log
               /\ httpStatus' = None
               /\ UNCHANGED mapOthers

\* A handler returns resp/r.rs R::ok(data)
R_ok ==
    \E scope \in Scopes :
        /\ mapCall = None
        /\ mapCall' = Some([fn |-> "resp::r::R::ok", err |-> None,
                            order |-> <<>>, scope |-> scope])
        /\ envelope' = Some([code |-> Code_Ok,
                             message |-> resp_translate(Code_Ok, <<>>, scope),
                             data |-> Some("data")])
        /\ logged' = <<>>
        /\ httpStatus' = None
        /\ UNCHANGED mapOthers

\* A handler returns r.rs R::err(err): the data is T::default()
r_R_err ==
    \E err \in Errors, scope \in Scopes :
        \E order \in OrdersOf(err) :
            /\ mapCall = None
            /\ LET m == r_map_err(err, order, scope) IN
               /\ mapCall' = Some([fn |-> "r::R::err", err |-> Some(err),
                                   order |-> order, scope |-> scope])
               /\ envelope' = Some([code |-> m.code, message |-> m.message,
                                    data |-> Some("default")])
               /\ logged' = m.log
               /\ httpStatus' = None
               /\ UNCHANGED mapOthers

\* The envelope a handler returned is turned into the response
IntoResponse ==
    /\ IsSome(envelope)
    /\ httpStatus = None
    /\ httpStatus' = Some(into_response(Unwrap(envelope)))
    /\ UNCHANGED <<mapCall, envelope, logged, mapOthers>>

MapNext ==
    \/ R_err
    \/ R_ok
    \/ r_R_err
    \/ IntoResponse

SpecMapper == MapInit /\ [][MapNext]_vars

\* The call was R::err of the named module with an error of one of the kinds
CalledWith(fn, kinds) ==
    /\ IsSome(mapCall)
    /\ Unwrap(mapCall).fn = fn
    /\ Unwrap(Unwrap(mapCall).err).kind \in kinds

KeyText ==
    (400 :> <<"4", "0", "0">> @@ 404 :> <<"4", "0", "4">> @@ 500 :> <<"5", "0", "0">> @@ -1 :> <<"-", "1">>)

(* C13: for E::Code(c) and E::Msg(c, params) called within the scope of a   *)
(* request's locale, the mapper returns the code c unchanged and as message *)
(* the rendering of the key str(c) in that locale, with no arguments for    *)
(* Code and with the params, in whatever order, for Msg.                     *)
C13_CodeAndMsg ==
    (CalledWith("resp::r::R::err", {"Code", "Msg"}) /\ IsSome(Unwrap(mapCall).scope)) =>
        LET err == Unwrap(Unwrap(mapCall).err)
            lang == Unwrap(Unwrap(mapCall).scope)
        IN  /\ Unwrap(envelope).code = err.code
            /\ \A o \in Orderings(DOMAIN err.params) :
                   Unwrap(envelope).message =
                       t(lang, KeyText[err.code],
                         [i \in 1..Len(o) |-> <<o[i], err.params[o[i]]>>])

\* E::Msg(400, {name: Bob, who: "{name}"}) in "en", where 400 is
\* "Bad {name} {who}", gives (400, "Bad Bob {name}")
C13_Witness ==
    /\ CalledWith("resp::r::R::err", {"Msg"})
    /\ Unwrap(mapCall).scope = Some(s_en)
    /\ DOMAIN Unwrap(Unwrap(mapCall).err).params = {s_name, s_who}
    /\ Unwrap(envelope).code = 400
    /\ Unwrap(envelope).message = <<"B", "a", "d", " ", "B", "o", "b", " ", "{", "n", "a", "m", "e", "}">>

(* C14: for a system failure the mapper returns the InternalServerError     *)
(* code and the localized message of that code, with no data; the code and  *)
(* the message are those it returns for every other cause in the same       *)
(* locale, so that no part of the cause reaches the caller.                  *)
C14_SystemFailureOpaque ==
    CalledWith("resp::r::R::err", {"Sys"}) =>
        LET scope == Unwrap(mapCall).scope IN
        /\ Unwrap(envelope).code = 500
        /\ Unwrap(envelope).data = None
        /\ IsSome(scope) => Unwrap(envelope).message = t(Unwrap(scope), <<"5", "0", "0">>, <<>>)
        /\ \A cause \in Causes :
               LET other == map_err(E_Sys(cause), <<>>, scope) IN
               /\ other.code = Unwrap(envelope).code
               /\ other.message = Unwrap(envelope).message

\* E::Sys("boom") in "en" gives (500, "Oops"), and the cause went to the log
C14_Witness ==
    /\ CalledWith("resp::r::R::err", {"Sys"})
    /\ Unwrap(Unwrap(mapCall).err).cause = <<"b", "o", "o", "m">>
    /\ Unwrap(mapCall).scope = Some(s_en)
    /\ Unwrap(envelope).message = <<"O", "o", "p", "s">>
    /\ Len(logged) = 1
    /\ logged[1].level = "error"
    /\ logged[1].detail.cause = <<"b", "o", "o", "m">>

Contains(s, sub) ==
    \E i \in 1..(Len(s) - Len(sub) + 1) : SubSeq(s, i, i + Len(sub) - 1) = sub

(* C15: every validation failure maps to the one illegal-parameter code,    *)
(* whatever the kinds of the violated rules; the failure whose only error   *)
(* is "required" on the field "name" gives that code and a message that     *)
(* contains "name: is required".                                             *)
C15_ValidationFixedCode ==
    CalledWith("resp::r::R::err", {"Val"}) =>
        LET errors == Unwrap(Unwrap(mapCall).err).errors IN
        /\ Unwrap(envelope).code = 902
        /\ (DOMAIN errors = {s_name}
            /\ Len(errors[s_name]) = 1
            /\ errors[s_name][1].code = s_required) =>
               Contains(Unwrap(envelope).message, <<"n", "a", "m", "e", ":", " ", "i", "s", " ", "r", "e", "q", "u", "i", "r", "e", "d">>)

\* "required" on "name" alone gives (902, "name: is required")
C15_Witness ==
    /\ CalledWith("resp::r::R::err", {"Val"})
    /\ DOMAIN Unwrap(Unwrap(mapCall).err).errors = {s_name}
    /\ Unwrap(Unwrap(mapCall).err).errors[s_name] =
           <<ValidationError(s_required, None, None, None)>>
    /\ Unwrap(envelope).code = 902
    /\ Unwrap(envelope).message = <<"n", "a", "m", "e", ":", " ", "i", "s", " ", "r", "e", "q", "u", "i", "r", "e", "d">>

(* C16: the mapper of r.rs maps a validation failure in which some field    *)
(* has a violated "required" rule to the MissingParam code 901, and one     *)
(* with no "required" violation to the IllegalParam code 902, in both cases *)
(* with the message the catalog has for that code in the request's locale.  *)
C16_MissingOrIllegal ==
    CalledWith("r::R::err", {"Val"}) =>
        LET errors == Unwrap(Unwrap(mapCall).err).errors
            scope == Unwrap(mapCall).scope
            missing == \E f \in DOMAIN errors : \E i \in 1..Len(errors[f]) :
                           errors[f][i].code = s_required
            code == IF missing THEN 901 ELSE 902
            key == IF missing THEN <<"9", "0", "1">> ELSE <<"9", "0", "2">>
            store == Unwrap(OnceGet(I18N_STORE))
        IN  /\ Unwrap(envelope).code = code
            /\ (IsSome(scope) /\ Unwrap(scope) \in DOMAIN store
                /\ key \in DOMAIN store[Unwrap(scope)]) =>
                   Unwrap(envelope).message = store[Unwrap(scope)][key]

\* A length error on name and a missing age, in "en", give (901, "Missing")
C16_Witness ==
    /\ CalledWith("r::R::err", {"Val"})
    /\ DOMAIN Unwrap(Unwrap(mapCall).err).errors = {s_name, s_age}
    /\ Unwrap(Unwrap(mapCall).err).errors[s_name][1].code = s_length
    /\ Unwrap(Unwrap(mapCall).err).errors[s_age][1].code = s_required
    /\ Unwrap(mapCall).scope = Some(s_en)
    /\ Unwrap(envelope).code = 901
    /\ Unwrap(envelope).message = <<"M", "i", "s", "s", "i", "n", "g">>

(* C17: the HTTP status of a response envelope is 500 exactly when its code *)
(* is the InternalServerError code, and 200 for every other code, the codes *)
(* of business and validation errors included.                               *)
C17_StatusOnlyFor500 ==
    IsSome(httpStatus) =>
        /\ Unwrap(httpStatus) = 500 <=> Unwrap(envelope).code = 500
        /\ Unwrap(envelope).code # 500 => Unwrap(httpStatus) = 200

\* The envelope of a validation failure, code 902, is answered with status 200
C17_Witness ==
    /\ CalledWith("resp::r::R::err", {"Val"})
    /\ Unwrap(envelope).code = 902
    /\ httpStatus = Some(200)

(* C19: the message of a validation failure is the lines "<field>: <detail>" *)
(* joined with "; ", one line for each pair of a field and a rule it         *)
(* violates; a failure with no field errors has the plain localized message  *)
(* of the illegal-parameter code.                                             *)
C19_ValidationMessage ==
    CalledWith("resp::r::R::err", {"Val"}) =>
        LET errors == Unwrap(Unwrap(mapCall).err).errors
            scope == Unwrap(mapCall).scope
            pairs == UNION {{<<f, i>> : i \in 1..Len(errors[f])} : f \in DOMAIN errors}
        IN  IF pairs = {}
            THEN IsSome(scope) => Unwrap(envelope).message = t(Unwrap(scope), <<"9", "0", "2">>, <<>>)
            ELSE \E o \in Orderings(pairs) :
                     Unwrap(envelope).message =
                         Join([k \in 1..Len(o) |->
                                  o[k][1] \o <<":", " ">> \o detail_of(errors[o[k][1]][o[k][2]])],
                              <<";", " ">>)

\* Two violated rules of name give "name: is required; name: length must be
\* between 1 and 10"
C19_Witness ==
    /\ CalledWith("resp::r::R::err", {"Val"})
    /\ Unwrap(envelope).message =
           <<"n", "a", "m", "e", ":", " ", "i", "s", " ", "r", "e", "q", "u", "i", "r", "e", "d", ";", " ", "n", "a", "m", "e", ":", " ", "l", "e", "n", "g", "t", "h", " ", "m", "u", "s", "t", " ", "b", "e", " ", "b", "e", "t", "w", "e", "e", "n", " ", "1", " ", "a", "n", "d", " ", "1", "0">>


\* The rule kinds of the detail table
TableKinds == {s_required, s_length, s_range, s_email}

\* The text "invalid (<rule>)"
GenericDetail(e) == <<"i", "n", "v", "a", "l", "i", "d", " ", "(">> \o e.code \o <<")">>

(* C25 as stated: in a validation message the detail of a rule kind other   *)
(* than required, length, range and email is the generic text               *)
(* "invalid (<rule>)".                                                        *)
C25_GenericDetail ==
    CalledWith("resp::r::R::err", {"Val"}) =>
        LET errors == Unwrap(Unwrap(mapCall).err).errors
            pairs == UNION {{<<f, i>> : i \in 1..Len(errors[f])} : f \in DOMAIN errors}
            detail(e) == IF e.code \in TableKinds THEN detail_of(e) ELSE GenericDetail(e)
        IN  pairs # {} =>
                \E o \in Orderings(pairs) :
                    Unwrap(envelope).message =
                        Join([k \in 1..Len(o) |->
                                 o[k][1] \o <<":", " ">> \o detail(errors[o[k][1]][o[k][2]])],
                             <<";", " ">>)

(* C25, amended: the detail of a rule kind other than required, length,     *)
(* range and email is the message the error carries when it carries one,    *)
(* and the generic text "invalid (<rule>)" when it carries none.             *)
C25_MessageOrGenericDetail ==
    CalledWith("resp::r::R::err", {"Val"}) =>
        LET errors == Unwrap(Unwrap(mapCall).err).errors
            pairs == UNION {{<<f, i>> : i \in 1..Len(errors[f])} : f \in DOMAIN errors}
            detail(e) == IF e.code \in TableKinds THEN detail_of(e)
                         ELSE IF IsSome(e.message) THEN Unwrap(e.message)
                         ELSE GenericDetail(e)
        IN  pairs # {} =>
                \E o \in Orderings(pairs) :
                    Unwrap(envelope).message =
                        Join([k \in 1..Len(o) |->
                                 o[k][1] \o <<":", " ">> \o detail(errors[o[k][1]][o[k][2]])],
                             <<";", " ">>)

\* Two phone errors of name, the first without a message and the second with
\* "bad; no", give "name: invalid (phone); name: bad; no"
C25_Witness ==
    /\ CalledWith("resp::r::R::err", {"Val"})
    /\ Unwrap(envelope).message = <<"n", "a", "m", "e", ":", " ", "i", "n", "v", "a", "l", "i", "d", " ", "(", "p", "h", "o", "n", "e", ")", ";", " ", "n", "a", "m", "e", ":", " ", "b", "a", "d", ";", " ", "n", "o">>


----------------------------------------------------------------------------
(* rivus-logger: the cleanup thread of LoggerConfig::init *)

MaxPasses == 2

\* The bytes of the characters of the file names
Ascii ==
    ("." :> 46 @@ "0" :> 48 @@ "1" :> 49 @@ "2" :> 50 @@ "3" :> 51
     @@ "a" :> 97 @@ "b" :> 98)

\* a < b under str::cmp: byte by byte, a proper prefix first
StrLess(a, b) ==
    \E i \in 1..Len(b) :
        /\ i <= Len(a) + 1
        /\ SubSeq(a, 1, i - 1) = SubSeq(b, 1, i - 1)
        /\ i = Len(a) + 1 \/ Ascii[a[i]] < Ascii[b[i]]

\* str::starts_with
starts_with(name, prefix) ==
    Len(name) >= Len(prefix) /\ SubSeq(name, 1, Len(prefix)) = prefix

\* A sort by ascending name
RECURSIVE sort_by_name_Ascending(_)
sort_by_name_Ascending(names) ==
    IF names = {} THEN <<>>
    ELSE LET least == CHOOSE n \in names : \A m \in names \ {n} : StrLess(n, m)
         IN  <<least>> \o sort_by_name_Ascending(names \ {least})

\* log_files.sort_by(|a, b| b.1.cmp(&a.1)) on the entries read_dir yields, in
\* whatever order it yields them: the names of a directory are distinct
RECURSIVE sort_by_name(_)
sort_by_name(names) ==
    IF names = {} THEN <<>>
    ELSE LET greatest == CHOOSE n \in names : \A m \in names \ {n} : StrLess(m, n)
         IN  <<greatest>> \o sort_by_name(names \ {greatest})

s_prefix == <<"a">>

\* The days of the rolling file names, as their suffixes
LogDates == {<<"1">>, <<"2">>, <<"1", "0">>}

RollingName(prefix, date) == prefix \o <<".">> \o date

\* The names a file of the directory can have: rolling files of the prefix,
\* another name that starts with the prefix, and one that does not
LogNames ==
    {RollingName(s_prefix, d) : d \in LogDates} \cup {<<"a", "b">>, <<"b", ".", "1">>}

\* LoggerConfig::new() with file_prefix, enable_file and max_files applied
LoggerConfigs ==
    [file_prefix : {s_prefix}, file : BOOLEAN,
     max_files : {None} \cup {Some(n) : n \in {-1, 1, 3}}]

LogInit ==
    /\ log_dir \in {None} \cup {Some(names) : names \in SUBSET LogNames}
    /\ cleaner \in {[NoLogger EXCEPT !.pc = "config", !.cfg = Some(c)] : c \in LoggerConfigs}
    /\ I18N_STORAGE = OnceNew
    /\ tCall = None
    /\ NegIdle
    /\ CatIdle
    /\ LocIdle
    /\ SrvNew
    /\ TplIdle
    /\ MapIdle

Config == Unwrap(cleaner.cfg)

\* LoggerConfig::init: build_file_layer opens today's file in the directory,
\* making both when they are missing, and spawn_cleanup_task_if_needed starts
\* the thread when max_files is set and file output is enabled
LoggerInit ==
    /\ cleaner.pc = "config"
    /\ \E today \in LogDates :
           log_dir' = IF Config.file
                      THEN Some((IF IsSome(log_dir) THEN Unwrap(log_dir) ELSE {})
                                \cup {RollingName(Config.file_prefix, today)})
                      ELSE log_dir
    /\ cleaner' =
           IF IsSome(Config.max_files) /\ Config.file
           THEN [cleaner EXCEPT !.pc = "cleanup",
                                !.max_files = IF Unwrap(Config.max_files) < 0 THEN 0
                                              ELSE Unwrap(Config.max_files)]
           ELSE [cleaner EXCEPT !.pc = "off"]
    /\ UNCHANGED logOthers

\* The pass is over: the thread goes to sleep
EndPass(c, dir) ==
    [c EXCEPT !.pc = "sleep", !.passes = @ + 1, !.after = Some(dir)]

\* cleanup_old_logs, lines 214-245: the directory is read, the names with the
\* prefix are sorted, and the loop over the files to delete is entered
Scan ==
    /\ cleaner.pc = "cleanup"
    /\ IF ~IsSome(log_dir)
       THEN cleaner' = EndPass([cleaner EXCEPT !.before = Some({}), !.created = {},
                                               !.log_files = <<>>], {})
       ELSE LET files == sort_by_name({n \in Unwrap(log_dir) :
                                          starts_with(n, Config.file_prefix)})
                c == [cleaner EXCEPT !.before = log_dir, !.created = {}, !.after = None,
                                     !.log_files = files]
            IN  cleaner' =
                    IF Len(files) > cleaner.max_files
                    THEN [c EXCEPT !.pc = "remove", !.next = cleaner.max_files + 1]
                    ELSE EndPass(c, Unwrap(log_dir))
    /\ UNCHANGED <<log_dir, logOthers>>

\* cleanup_old_logs, lines 246-250: one turn of the loop removes one file
RemoveNext ==
    /\ cleaner.pc = "remove"
    /\ LET dir == Unwrap(log_dir) \ {cleaner.log_files[cleaner.next]}
       IN  /\ log_dir' = Some(dir)
           /\ cleaner' = IF cleaner.next < Len(cleaner.log_files)
                         THEN [cleaner EXCEPT !.next = @ + 1]
                         ELSE EndPass(cleaner, dir)
    /\ UNCHANGED logOthers

\* std::thread::sleep(interval) returns
Wake ==
    /\ cleaner.pc = "sleep"
    /\ cleaner.passes < MaxPasses
    /\ cleaner' = [cleaner EXCEPT !.pc = "cleanup", !.wakes = @ + 1]
    /\ UNCHANGED <<log_dir, logOthers>>

\* A file appears in the directory: the appender rolls over to a new day, or a
\* test or another program creates one.  What appears while the loop over the
\* files to delete runs is noted in created.
CreateFile ==
    /\ IsSome(log_dir)
    /\ cleaner.pc # "config"
    /\ \E name \in LogNames \ Unwrap(log_dir) :
           /\ log_dir' = Some(Unwrap(log_dir) \cup {name})
           /\ cleaner' = IF cleaner.pc = "remove"
                         THEN [cleaner EXCEPT !.created = @ \cup {name}]
                         ELSE cleaner
    /\ UNCHANGED logOthers

LogNext ==
    \/ LoggerInit
    \/ Scan
    \/ RemoveNext
    \/ Wake
    \/ CreateFile

\* The cleanup thread is scheduled as long as it has a step to take
SpecLogger ==
    LogInit /\ [][LogNext]_vars /\ WF_vars(Scan) /\ WF_vars(RemoveNext)

\* What the last pass has left of the files it found, against what the claim
\* says it keeps
PassKeepsNewest ==
    IsSome(cleaner.after) =>
        LET before == Unwrap(cleaner.before)
            after == Unwrap(cleaner.after)
            keep == IF Unwrap(Config.max_files) < 0 THEN 0 ELSE Unwrap(Config.max_files)
            found == {n \in before : starts_with(n, Config.file_prefix)}
            newest == {n \in found : Cardinality({m \in found : StrLess(n, m)}) < keep}
        IN  /\ {n \in after \ cleaner.created : n \in found} = newest
            /\ \A n \in before \ found : n \in after
            /\ cleaner.created = {} =>
                   {n \in after : starts_with(n, Config.file_prefix)} = newest

\* No pass without a thread, and none but the first without a sleep before it
PassesFollowIntervals ==
    /\ cleaner.passes > 0 => (IsSome(Config.max_files) /\ Config.file)
    /\ cleaner.pc = "off" <=>
           (cleaner.pc # "config" /\ ~(IsSome(Config.max_files) /\ Config.file))
    /\ cleaner.passes <= cleaner.wakes + 1

----------------------------------------------------------------------------
(* t and translate called while the catalogs are being built *)

NumBuilders == 2

\* The callers that build a catalog while lookups are made
Builders == 1..NumBuilders

LookupLangs == {s_en, s_fr}
LookupKeys == {s_200, s_404}
LookupArgs == {<<>>, << <<s_name, s_Jason>> >>}

\* A handler calls t(lang, key, args) and translate(lang, key), whatever the
\* build calls are doing: both read their OnceLock with get
Lookup ==
    /\ tCall = None
    /\ \E lang \in LookupLangs, key \in LookupKeys, args \in LookupArgs :
           tCall' = Some([lang |-> lang, key |-> key, args |-> args,
                          result |-> t(lang, key, args),
                          found |-> translate(lang, key),
                          storage |-> I18N_STORAGE.state,
                          store |-> I18N_STORE.state])
    /\ UNCHANGED <<I18N_STORAGE, catVars, locVars, negVars, srvVars, tplVars, mapVars,
                   logVars>>

LookupNext ==
    \/ \E p \in Builders : CallInternalInit(p)
    \/ \E p \in Builders : CallInit(p)
    \/ \E p \in Builders : InitScan(p)
    \/ \E p \in Builders : OnceBegin(p)
    \/ \E p \in Builders : OnceWrite(p)
    \/ \E p \in Builders : OnceFinish(p)
    \/ Lookup

SpecLookup == CatInit /\ [][LookupNext]_vars

(* C28: a lookup made before the catalog is initialized, also while a build *)
(* is under way, is answered at once: t returns "[Missing Lang: <lang>]"    *)
(* for every language, key and argument list, and translate returns None;   *)
(* a lookup made after the initialization returns the text of the installed *)
(* template, with the value of name for its {name}, and nothing for it when  *)
(* no argument is given.                                                      *)
C28_LookupBeforeInit ==
    /\ tCall = None => ENABLED Lookup
    /\ IsSome(tCall) =>
           LET c == Unwrap(tCall) IN
           /\ c.storage # "Complete" => c.result = MissingLang(c.lang)
           /\ c.store # "Complete" => c.found = None
           /\ c.storage = "Complete" =>
                  \A files \in {AssetsA, AssetsB} :
                      (/\ I18N_STORAGE.value = Some(I18nAssets(files))
                       /\ c.lang \in DOMAIN files
                       /\ c.key \in DOMAIN files[c.lang]) =>
                          c.result = Replace(files[c.lang][c.key],
                                             <<"{", "n", "a", "m", "e", "}">>,
                                             IF c.args = <<>> THEN <<>> ELSE s_Jason)
           /\ c.store = "Complete" =>
                  \A lang \in DOMAIN Unwrap(I18N_STORE.value) :
                      (c.lang = lang /\ c.key \in DOMAIN Unwrap(I18N_STORE.value)[lang]) =>
                          c.found = Some(Unwrap(I18N_STORE.value)[lang][c.key])

\* t("en", "200", []) was called while a build was inside I18N_STORAGE.set, and
\* returned "[Missing Lang: en]"; the catalog is installed since
C28_Witness ==
    /\ IsSome(tCall)
    /\ Unwrap(tCall).storage = "Running"
    /\ Unwrap(tCall).lang = s_en
    /\ Unwrap(tCall).result = MissingLang(s_en)
    /\ Unwrap(tCall).found = None
    /\ I18N_STORAGE.state = "Complete"


----------------------------------------------------------------------------
(* The renderings of a message with parameters: t in resp/r.rs, the fold of  *)
(* replace in r.rs                                                            *)

\* The message either mapper gives the error of the call when its parameters
\* are met in the given order
MessageUnder(order) ==
    LET call == Unwrap(mapCall) IN
    IF call.fn = "r::R::err"
    THEN r_map_err(Unwrap(call.err), order, call.scope).message
    ELSE map_err(Unwrap(call.err), order, call.scope).message

(* C29: rendering substitutes in a single pass: a parameter value that      *)
(* holds text of the form {name} is inserted as it is and not expanded      *)
(* again, so the message does not depend on the order in which the          *)
(* parameters are met: "Bad {name} {who}" with name = Bob and who = "{name}" *)
(* is "Bad Bob {name}".                                                       *)
C29_SinglePassRendering ==
    (/\ IsSome(mapCall)
     /\ Unwrap(mapCall).fn \in {"resp::r::R::err", "r::R::err"}
     /\ Unwrap(Unwrap(mapCall).err).kind = "Msg") =>
        LET call == Unwrap(mapCall)
            err == Unwrap(call.err)
        IN  /\ \A order \in OrdersOf(err) : MessageUnder(order) = Unwrap(envelope).message
            /\ (/\ call.scope = Some(s_en)
                /\ err.code = Code_BadRequest
                /\ DOMAIN err.params = {s_name, s_who}) =>
                   Unwrap(envelope).message = <<"B", "a", "d", " ", "B", "o", "b", " ", "{", "n", "a", "m", "e", "}">>

====
